---------------------------- MODULE Spec2Model ----------------------------
(***************************************************************************)
(* A model of py2api's dispatch pipeline: attribute permission matching    *)
(* (PermissibleAttr / get_pattern_from_attr_permissions_dict), the         *)
(* conditional transform search of InputTrans, input collection            *)
(* (InputTrans.__call__) and the dispatch itself (ObjWrap.__call__).       *)
(*                                                                         *)
(* Python strings are TLA+ strings; a regular expression is the string     *)
(* handed to re.compile and ReMatch evaluates re.match on it.              *)
(***************************************************************************)
EXTENDS Integers, Sequences, FiniteSets, TLC

(***************************************************************************)
(* Strings                                                                 *)
(***************************************************************************)
Ch(s, i) == SubSeq(s, i, i)

EndsWith(s, suf) ==
    /\ Len(s) >= Len(suf)
    /\ SubSeq(s, Len(s) - Len(suf) + 1, Len(s)) = suf

\* Python's s[:-n]
DropLast(s, n) == SubSeq(s, 1, Len(s) - n)

RECURSIVE Join(_, _)
\* sep.join(list)
Join(sep, list) ==
    IF Len(list) = 0 THEN ""
    ELSE IF Len(list) = 1 THEN list[1]
    ELSE list[1] \o sep \o Join(sep, Tail(list))

RECURSIVE JoinChars(_, _)
\* sep.join(s) for a string s: the separator goes between the characters
JoinChars(sep, s) ==
    IF Len(s) = 0 THEN ""
    ELSE IF Len(s) = 1 THEN s
    ELSE Ch(s, 1) \o sep \o JoinChars(sep, Tail(s))

(***************************************************************************)
(* re.compile / re.match for the pattern language the permission code      *)
(* produces: literals, escapes, ".", "*", "$", "^", "|", groups and the    *)
(* negative lookahead "(?!...)".  A match is computed as the set of        *)
(* positions of the subject a pattern can end at, which is what            *)
(* backtracking explores.                                                  *)
(***************************************************************************)
RECURSIVE GroupEnd(_, _, _)
\* index of the ")" closing the group whose body starts at i (Len(p)+1: none)
GroupEnd(p, i, depth) ==
    IF i > Len(p) THEN Len(p) + 1
    ELSE IF Ch(p, i) = "\\" THEN GroupEnd(p, i + 2, depth)
    ELSE IF Ch(p, i) = "(" THEN GroupEnd(p, i + 1, depth + 1)
    ELSE IF Ch(p, i) = ")"
         THEN IF depth = 0 THEN i ELSE GroupEnd(p, i + 1, depth - 1)
    ELSE GroupEnd(p, i + 1, depth)

\* index of the last character of the atom that starts p
AtomEnd(p) ==
    IF Ch(p, 1) = "\\" THEN 2
    ELSE IF Ch(p, 1) = "(" THEN GroupEnd(p, 2, 0)
    ELSE 1

RECURSIVE FirstBar(_, _, _)
\* index of the first "|" of p outside groups and escapes (0: none)
FirstBar(p, i, depth) ==
    IF i > Len(p) THEN 0
    ELSE IF Ch(p, i) = "\\" THEN FirstBar(p, i + 2, depth)
    ELSE IF Ch(p, i) = "(" THEN FirstBar(p, i + 1, depth + 1)
    ELSE IF Ch(p, i) = ")" THEN FirstBar(p, i + 1, depth - 1)
    ELSE IF Ch(p, i) = "|" /\ depth = 0 THEN i
    ELSE FirstBar(p, i + 1, depth)

IsLookahead(atom) == Len(atom) >= 4 /\ SubSeq(atom, 1, 3) = "(?!"

RECURSIVE ReValidAlt(_)
RECURSIVE ReValidCat(_)
\* re.compile accepts the branch p (no top-level "|")
ReValidCat(p) ==
    IF p = "" THEN TRUE
    ELSE IF Ch(p, 1) \in {"*", ")", "?", "+"} THEN FALSE   \* nothing to repeat / unbalanced
    ELSE LET e == AtomEnd(p)
             atom == SubSeq(p, 1, e)
             star == e < Len(p) /\ Ch(p, e + 1) = "*"
             rest == SubSeq(p, IF star THEN e + 2 ELSE e + 1, Len(p))
         IN  /\ e <= Len(p)                                 \* bad escape / missing ")"
             /\ (star => atom \notin {"$", "^"})            \* nothing to repeat
             /\ (Ch(atom, 1) = "(" =>
                    IF IsLookahead(atom) \/ atom = "(?!)"
                    THEN ReValidAlt(SubSeq(atom, 4, Len(atom) - 1))
                    ELSE ReValidAlt(SubSeq(atom, 2, Len(atom) - 1)))
             /\ ReValidCat(rest)

\* re.compile accepts p
ReValidAlt(p) ==
    LET b == FirstBar(p, 1, 0)
    IN  IF b = 0 THEN ReValidCat(p)
        ELSE ReValidCat(SubSeq(p, 1, b - 1)) /\ ReValidAlt(SubSeq(p, b + 1, Len(p)))

RECURSIVE MatchAlt(_, _, _)
RECURSIVE MatchCat(_, _, _)
RECURSIVE MatchAtom(_, _, _)
RECURSIVE MatchStar(_, _, _)

\* positions reachable from the positions P by one occurrence of atom
MatchAtom(atom, s, P) ==
    IF atom = "." THEN {q + 1 : q \in {r \in P : r <= Len(s)}}
    ELSE IF atom = "$" THEN {q \in P : q = Len(s) + 1}
    ELSE IF atom = "^" THEN {q \in P : q = 1}
    ELSE IF Ch(atom, 1) = "\\"
         THEN {q + 1 : q \in {r \in P : r <= Len(s) /\ Ch(s, r) = Ch(atom, 2)}}
    ELSE IF Ch(atom, 1) = "("
         THEN IF SubSeq(atom, 1, 3) = "(?!"
              THEN {q \in P : MatchAlt(SubSeq(atom, 4, Len(atom) - 1), s, {q}) = {}}
              ELSE MatchAlt(SubSeq(atom, 2, Len(atom) - 1), s, P)
    ELSE {q + 1 : q \in {r \in P : r <= Len(s) /\ Ch(s, r) = atom}}

\* zero or more occurrences of atom
MatchStar(atom, s, P) ==
    LET N == P \cup MatchAtom(atom, s, P)
    IN  IF N = P THEN P ELSE MatchStar(atom, s, N)

\* a branch: atoms, each possibly starred, in sequence
MatchCat(p, s, P) ==
    IF p = "" \/ P = {} THEN P
    ELSE LET e == AtomEnd(p)
             atom == SubSeq(p, 1, e)
             star == e < Len(p) /\ Ch(p, e + 1) = "*"
             rest == SubSeq(p, IF star THEN e + 2 ELSE e + 1, Len(p))
         IN  MatchCat(rest, s, IF star THEN MatchStar(atom, s, P)
                                       ELSE MatchAtom(atom, s, P))

\* alternation of branches
MatchAlt(p, s, P) ==
    LET b == FirstBar(p, 1, 0)
    IN  IF b = 0 THEN MatchCat(p, s, P)
        ELSE MatchCat(SubSeq(p, 1, b - 1), s, P)
               \cup MatchAlt(SubSeq(p, b + 1, Len(p)), s, P)

\* bool(re.compile(p).match(s)): a match anchored at the start of s
ReMatch(p, s) == MatchAlt(p, s, {1}) # {}


(***************************************************************************)
(* Python values used by the permission code                               *)
(***************************************************************************)
NoneV == [t |-> "None"]
ListV(l) == [t |-> "list", v |-> l]
DictV(d) == [t |-> "dict", v |-> d]
StrV(s) == [t |-> "str", v |-> s]

\* Python truth value of "not x"
Falsy(x) ==
    \/ x.t = "None"
    \/ x.t = "list" /\ Len(x.v) = 0
    \/ x.t = "dict" /\ DOMAIN x.v = {}
    \/ x.t = "str" /\ x.v = ""

\* d.get(k, dflt)
DictGet(d, k, dflt) == IF k \in DOMAIN d THEN d[k] ELSE dflt

\* results of building a matcher
ReV(p) == [k |-> "re", re |-> p]
NoPattern == [k |-> "none", re |-> ""]
Raised(exc) == [k |-> "raise", re |-> exc]

\* re.compile(p)
ReCompile(p) == IF ReValidAlt(p) THEN ReV(p) ELSE Raised("re.error")

(***************************************************************************)
(* src/util.py (the same code is in src/py2rest.py)                        *)
(***************************************************************************)
\* an entry on which the code evaluates entry[-2] although it has one character
ShortStar(entry, viaDollar) ==
    /\ Len(entry) < 2
    /\ EndsWith(entry, "*") \/ (viaDollar /\ EndsWith(entry, "$"))

CorrectedIncludeNoAnchor(include) ==
    IF ~EndsWith(include, "*") THEN include
    ELSE IF EndsWith(include, "\\.*") THEN DropLast(include, 3) \o ".*"
    ELSE IF Ch(include, Len(include) - 1) # "." THEN DropLast(include, 1) \o ".*"
    ELSE include

\* the body of the loop over the include list
CorrectedInclude(include) ==
    IF ~EndsWith(include, "*")
    THEN IF ~EndsWith(include, "$") THEN include \o "$" ELSE include
    ELSE IF EndsWith(include, "\\.*") THEN DropLast(include, 3) \o ".*"
    ELSE IF Ch(include, Len(include) - 1) # "." THEN DropLast(include, 1) \o ".*"
    ELSE include

\* the body of the loop over the exclude list
CorrectedExclude(exclude) ==
    IF ~EndsWith(exclude, "$") /\ ~EndsWith(exclude, "*") THEN exclude \o ".*"
    ELSE IF EndsWith(exclude, "\\.*") THEN DropLast(exclude, 3) \o ".*"
    ELSE IF Ch(exclude, Len(exclude) - 1) # "." THEN DropLast(exclude, 1) \o ".*"
    ELSE exclude

util_pattern_string(attr_permissions) ==
    LET incl == DictGet(attr_permissions, "include", <<>>)
        excl == DictGet(attr_permissions, "exclude", <<>>)
        ci == [i \in 1..Len(incl) |-> CorrectedInclude(incl[i])]
        ce == [i \in 1..Len(excl) |-> CorrectedExclude(excl[i])]
    IN  Join("|", ci) \o (IF Len(ce) > 0 THEN "(?!" \o Join("|", ce) \o ")" ELSE "")

util_get_pattern_from_attr_permissions_dict(attr_permissions) ==
    LET incl == DictGet(attr_permissions, "include", <<>>)
        excl == DictGet(attr_permissions, "exclude", <<>>)
    IN  IF \/ \E i \in 1..Len(incl) : ShortStar(incl[i], FALSE)
           \/ \E i \in 1..Len(excl) : ShortStar(excl[i], TRUE)
        THEN Raised("IndexError")
        ELSE ReCompile(util_pattern_string(attr_permissions))

\* PermissibleAttr.__init__ of src/util.py: the compiled pattern
util_PermissibleAttr(permissible_attrs) ==
    IF Falsy(permissible_attrs) THEN ReCompile("0")
    ELSE IF permissible_attrs.t = "list"
         THEN util_get_pattern_from_attr_permissions_dict([include |-> permissible_attrs.v])
    ELSE IF permissible_attrs.t = "dict"
         THEN util_get_pattern_from_attr_permissions_dict(permissible_attrs.v)
    ELSE ReCompile(permissible_attrs.v)

\* PermissibleAttr.__call__ of src/util.py
util_permits(pattern, attr) == ReMatch(pattern.re, attr)

(***************************************************************************)
(* src/py2api/util.py, the matcher ObjWrap builds                          *)
(***************************************************************************)
\* incls + '(?!%s)' % '|'.join(excls) if excls else ''
\* (the conditional expression spans the whole sum; excls is a string)
get_pattern_from_attr_permissions_dict(attr_permissions) ==
    LET incls == Join("|", DictGet(attr_permissions, "include", <<>>))
        excls == Join("|", DictGet(attr_permissions, "exclude", <<>>))
    IN  ReCompile(IF excls # "" THEN incls \o "(?!" \o JoinChars("|", excls) \o ")"
                                ELSE "")

\* PermissibleAttr.__init__ of py2api/util.py: permissible_attr_pattern
PermissibleAttr(permissible_attrs) ==
    IF Falsy(permissible_attrs) THEN NoPattern
    ELSE IF permissible_attrs.t = "list"
         THEN get_pattern_from_attr_permissions_dict([include |-> permissible_attrs.v])
    ELSE IF permissible_attrs.t = "dict"
         THEN get_pattern_from_attr_permissions_dict(permissible_attrs.v)
    ELSE ReCompile(permissible_attrs.v)

\* PermissibleAttr.__call__ of py2api/util.py
permits(pattern, attr) == pattern.k # "none" /\ ReMatch(pattern.re, attr)


(***************************************************************************)
(* Transform specifications (trans_spec): a callable, a dict keyed by the  *)
(* condition axes, or anything else.                                       *)
(***************************************************************************)
Fn(f) == [k |-> "fn", f |-> f, d |-> <<>>]
Dict(d) == [k |-> "dict", f |-> "", d |-> d]

\* py2api.constants and py2api.py2rest.constants
TRANS_NOT_FOUND == [k |-> "none", f |-> "", d |-> <<>>]
ATTR == "attr"
_ATTR == "_attr"
_ARGNAME == "_argname"
_VALTYPE == "_valtype"
_ELSE == "_else"
_SOURCE == "_source"
_ARGS == "_args"
_JSON == "_json"
_ROUTE == "_route"
_HELP == "_help"
_OUTPUT_TRANS == "_output_trans"

\* source=None
NoSource == "None"

\* attr is None
NoAttr == "None"

callable(x) == x.k = "fn"

\* Python truth value of a trans_spec node
Truthy(x) == x.k = "fn" \/ (x.k = "dict" /\ DOMAIN x.d # {})

\* Python values: a type name and a printed form
V(ty, v) == [ty |-> ty, v |-> v]

\* isinstance(val, type)
IsInstance(val, ty) ==
    \/ ty = "object"
    \/ val.ty = ty
    \/ val.ty = "bool" /\ ty = "int"

RECURSIVE search_trans_func(_, _, _, _, _)
\* InputTrans.search_trans_func of py2api/py2rest/input_trans.py
search_trans_func(attr, argname, val, trans_spec, source) ==
    IF callable(trans_spec) THEN trans_spec
    ELSE IF trans_spec.k = "dict"
    THEN IF DOMAIN trans_spec.d = {} THEN TRANS_NOT_FOUND
         ELSE LET d == trans_spec.d
                  Search(ts) == search_trans_func(attr, argname, val, ts, source)
                  \* search _SOURCE
                  src_spec == DictGet(DictGet(d, _SOURCE, <<>>), source, Dict(<<>>))
                  from_source == IF source # NoSource /\ Truthy(src_spec)
                                 THEN Search(src_spec) ELSE TRANS_NOT_FOUND
                  \* search_in_field(trans_spec, field, field_val)
                  search_in_field(field, field_val) ==
                      LET ts == DictGet(DictGet(d, field, <<>>), field_val, TRANS_NOT_FOUND)
                      IN  IF Truthy(ts) THEN Search(ts) ELSE TRANS_NOT_FOUND
                  \* search_in_field(_ATTR) or search_in_field(_ARGNAME)
                  from_attr == search_in_field(_ATTR, attr)
                  from_fields == IF Truthy(from_attr) THEN from_attr
                                 ELSE search_in_field(_ARGNAME, argname)
                  \* _ELSE: when present and truthy, its result is assigned
                  \* to trans_func whatever the fields gave
                  else_spec == DictGet(d, _ELSE, TRANS_NOT_FOUND)
              IN  IF source # NoSource /\ from_source # TRANS_NOT_FOUND THEN from_source
                  ELSE IF Truthy(else_spec) THEN Search(else_spec)
                  ELSE from_fields
    ELSE TRANS_NOT_FOUND

RECURSIVE FirstOfType(_, _)
\* the spec of the first (type, spec) entry of which val is an instance
FirstOfType(val, entries) ==
    IF Len(entries) = 0 THEN TRANS_NOT_FOUND
    ELSE IF IsInstance(val, entries[1][1]) THEN entries[1][2]
    ELSE FirstOfType(val, Tail(entries))

HasOfType(val, entries) == \E i \in 1..Len(entries) : IsInstance(val, entries[i][1])

RECURSIVE rest_search_trans_func(_, _, _, _, _)
\* InputTrans.search_trans_func of src/py2rest/input_trans.py
rest_search_trans_func(attr, argname, val, trans_spec, source) ==
    IF callable(trans_spec) THEN trans_spec
    ELSE IF trans_spec.k = "dict"
    THEN IF DOMAIN trans_spec.d = {} THEN TRANS_NOT_FOUND
         ELSE LET d == trans_spec.d
                  Search(ts) == rest_search_trans_func(attr, argname, val, ts, source)
                  src_spec == DictGet(DictGet(d, _SOURCE, <<>>), source, Dict(<<>>))
                  from_source == IF source # NoSource /\ Truthy(src_spec)
                                 THEN Search(src_spec) ELSE TRANS_NOT_FOUND
                  attr_spec == DictGet(DictGet(d, _ATTR, <<>>), attr, Dict(<<>>))
                  from_attr == IF Truthy(attr_spec) THEN Search(attr_spec)
                               ELSE TRANS_NOT_FOUND
                  argname_spec == DictGet(DictGet(d, _ARGNAME, <<>>), argname, TRANS_NOT_FOUND)
                  from_argname == IF Truthy(argname_spec) THEN Search(argname_spec)
                                  ELSE TRANS_NOT_FOUND
                  valtypes == DictGet(d, _VALTYPE, <<>>)
              IN  IF source # NoSource /\ from_source # TRANS_NOT_FOUND THEN from_source
                  ELSE IF from_attr # TRANS_NOT_FOUND THEN from_attr
                  ELSE IF from_argname # TRANS_NOT_FOUND THEN from_argname
                  ELSE IF HasOfType(val, valtypes) THEN FirstOfType(val, valtypes)
                  ELSE IF _ELSE \in DOMAIN d THEN Search(d[_ELSE])
                  ELSE TRANS_NOT_FOUND
    ELSE TRANS_NOT_FOUND

(***************************************************************************)
(* Dicts (functions on strings)                                            *)
(***************************************************************************)
\* d[k] = v
DictSet(d, k, v) == (k :> v) @@ d

\* d without the key k
DictDel(d, k) == [x \in DOMAIN d \ {k} |-> d[x]]

\* d without the keys ks
DictDrop(d, ks) == [x \in DOMAIN d \ ks |-> d[x]]

\* the entries of d whose key is in ks
DictTake(d, ks) == [x \in DOMAIN d \cap ks |-> d[x]]

(***************************************************************************)
(* Exceptions (py2api/errors.py) and outcomes of a dispatch                *)
(***************************************************************************)
NoneVal == V("NoneType", "None")

\* at: the place that raised ("" when nothing was raised)
Pending == [kind |-> "pending", exc |-> "", val |-> NoneVal, at |-> ""]
Raise(exc, at) == [kind |-> "raise", exc |-> exc, val |-> NoneVal, at |-> at]
Return(val) == [kind |-> "return", exc |-> "", val |-> val, at |-> ""]

\* the subclasses of ClientError, with the status_code each carries
ClientErrors == {"ClientError", "BadRequest", "Forbidden", "ForbiddenAttribute",
                 "ForbiddenProperty", "MissingAttribute"}
IsBadRequest(exc) == exc \in {"BadRequest", "MissingAttribute"}
status_code(exc) ==
    IF exc \in {"Forbidden", "ForbiddenAttribute", "ForbiddenProperty"} THEN 403 ELSE 400

(***************************************************************************)
(* The transforms of the example and what they do to a value               *)
(***************************************************************************)
NumericStrs == {"1", "5", "7", "9"}
Operators == {"+", "-", "x", "*", "/"}

Converted(val) == [ok |-> TRUE, val |-> val, exc |-> ""]
Failed(exc) == [ok |-> FALSE, val |-> NoneVal, exc |-> exc]

\* trans_func(val)
ApplyTrans(f, val) ==
    IF f = "float"
    THEN IF val.v \in NumericStrs THEN Converted(V("float", val.v)) ELSE Failed("ValueError")
    ELSE IF f = "int"
    THEN IF val.v \in NumericStrs THEN Converted(V("int", val.v)) ELSE Failed("ValueError")
    ELSE IF f \in {"get_float_operator_func", "get_int_operator_func"}
    THEN IF val.v \in Operators THEN Converted(V("function", val.v)) ELSE Failed("ValueError")
    ELSE Converted(V(f, val.v))

(***************************************************************************)
(* The wrapped controller (py2api/examples/wrapping_a_class.py)            *)
(***************************************************************************)
\* Controller(user='world', dflt_greeting='Hello')
Controller(kwargs) ==
    [user |-> DictGet(kwargs, "user", V("str", "world")),
     dflt_greeting |-> DictGet(kwargs, "dflt_greeting", V("str", "Hello"))]

Methods == {"greet", "do_not_give_access_to_this", "fcalc.compute", "icalc.compute"}
Properties == {"user", "dflt_greeting", "fcalc.whoami", "icalc.whoami"}

\* get_attr_recursively(obj, attr): the leaf, or the default None
get_attr_recursively(obj, attr) ==
    IF attr \in Methods THEN [kind |-> "method", name |-> attr, obj |-> obj]
    ELSE IF attr \in Properties THEN [kind |-> "value", name |-> attr, obj |-> obj]
    ELSE [kind |-> "None", name |-> "", obj |-> obj]

\* the keyword arguments a method requires and accepts
Required(m) == IF m \in {"fcalc.compute", "icalc.compute"} THEN {"x", "op", "y"} ELSE {}
Accepted(m) ==
    IF m \in {"fcalc.compute", "icalc.compute"} THEN {"x", "op", "y"}
    ELSE IF m = "greet" THEN {"greeting"}
    ELSE {}

\* what the call target(**kwargs) gives
CallTarget(target, kwargs) ==
    IF ~(Required(target.name) \subseteq DOMAIN kwargs /\ DOMAIN kwargs \subseteq Accepted(target.name))
    THEN Raise("TypeError", "call")
    ELSE IF target.name = "greet"
    THEN Return(V("str", DictGet(kwargs, "greeting", target.obj.dflt_greeting).v
                            \o " " \o target.obj.user.v \o "!"))
    ELSE IF target.name = "do_not_give_access_to_this"
    THEN Return(V("str", "it's a secret"))
    ELSE Return(V("number", kwargs["x"].v \o kwargs["op"].v \o kwargs["y"].v))

\* the value of a property
PropertyValue(target) ==
    IF target.name = "user" THEN target.obj.user
    ELSE IF target.name = "dflt_greeting" THEN target.obj.dflt_greeting
    ELSE IF target.name = "fcalc.whoami" THEN V("str", "a float calculator")
    ELSE V("str", "an int calculator")

(***************************************************************************)
(* OutputTrans (py2api/output_trans.py)                                    *)
(***************************************************************************)
\* output_trans=None
NoMode == "None"

\* the mutated __init__: an empty spec is given a fallback transform
OutputTrans_init_WithFallback(trans_spec) ==
    IF trans_spec.k = "none" THEN Dict(_ELSE :> Fn("str"))
    ELSE IF callable(trans_spec) THEN Dict(_ELSE :> trans_spec)
    ELSE trans_spec

\* OutputTrans.__init__: self.trans_spec
OutputTrans_init(trans_spec) ==
    IF trans_spec.k = "none" THEN Dict(<<>>)
    ELSE IF callable(trans_spec) THEN Dict(_ELSE :> trans_spec)
    ELSE trans_spec

RECURSIVE out_search_trans_func_AttrFirst(_, _, _, _)
\* the search with the attribute axis consulted before the output mode
out_search_trans_func_AttrFirst(attr, val, trans_spec, output_trans) ==
    IF callable(trans_spec) THEN trans_spec
    ELSE IF trans_spec.k = "dict"
    THEN IF DOMAIN trans_spec.d = {} THEN TRANS_NOT_FOUND
         ELSE LET d == trans_spec.d
                  mode_spec == DictGet(DictGet(d, _OUTPUT_TRANS, <<>>), output_trans, Dict(<<>>))
                  from_mode == IF output_trans # NoMode /\ Truthy(mode_spec)
                               THEN out_search_trans_func_AttrFirst(attr, val, mode_spec, output_trans)
                               ELSE TRANS_NOT_FOUND
                  attr_spec == DictGet(DictGet(d, _ATTR, <<>>), attr, Dict(<<>>))
                  from_attr == IF Truthy(attr_spec)
                               THEN out_search_trans_func_AttrFirst(attr, val, attr_spec, NoMode)
                               ELSE TRANS_NOT_FOUND
                  valtypes == DictGet(d, _VALTYPE, <<>>)
              IN  IF from_attr # TRANS_NOT_FOUND THEN from_attr
                  ELSE IF from_mode # TRANS_NOT_FOUND THEN from_mode
                  ELSE IF HasOfType(val, valtypes) THEN FirstOfType(val, valtypes)
                  ELSE IF _ELSE \in DOMAIN d
                       THEN out_search_trans_func_AttrFirst(attr, val, d[_ELSE], NoMode)
                  ELSE TRANS_NOT_FOUND
    ELSE TRANS_NOT_FOUND

RECURSIVE out_search_trans_func(_, _, _, _)
\* OutputTrans.search_trans_func; the recursive calls for the attribute and
\* the fallback entries are made without output_trans
out_search_trans_func(attr, val, trans_spec, output_trans) ==
    IF callable(trans_spec) THEN trans_spec
    ELSE IF trans_spec.k = "dict"
    THEN IF DOMAIN trans_spec.d = {} THEN TRANS_NOT_FOUND
         ELSE LET d == trans_spec.d
                  \* search _OUTPUT_TRANS
                  mode_spec == DictGet(DictGet(d, _OUTPUT_TRANS, <<>>), output_trans, Dict(<<>>))
                  from_mode == IF output_trans # NoMode /\ Truthy(mode_spec)
                               THEN out_search_trans_func(attr, val, mode_spec, output_trans)
                               ELSE TRANS_NOT_FOUND
                  \* search _ATTR
                  attr_spec == DictGet(DictGet(d, _ATTR, <<>>), attr, Dict(<<>>))
                  from_attr == IF Truthy(attr_spec)
                               THEN out_search_trans_func(attr, val, attr_spec, NoMode)
                               ELSE TRANS_NOT_FOUND
                  \* search _VALTYPE: the entry is returned as it is
                  valtypes == DictGet(d, _VALTYPE, <<>>)
              IN  IF from_mode # TRANS_NOT_FOUND THEN from_mode
                  ELSE IF from_attr # TRANS_NOT_FOUND THEN from_attr
                  ELSE IF HasOfType(val, valtypes) THEN FirstOfType(val, valtypes)
                  ELSE IF _ELSE \in DOMAIN d
                       THEN out_search_trans_func(attr, val, d[_ELSE], NoMode)
                  ELSE TRANS_NOT_FOUND
    ELSE TRANS_NOT_FOUND

\* OutputTrans.__call__(val, attr, output_trans) on self.trans_spec
OutputTrans_call(trans_spec, val, attr, output_trans) ==
    LET trans_func == out_search_trans_func(attr, val, trans_spec, output_trans)
    IN  IF trans_func = TRANS_NOT_FOUND THEN Converted(val)
        ELSE IF callable(trans_func) THEN ApplyTrans(trans_func.f, val)
        ELSE Failed("TypeError")

(***************************************************************************)
(* lru_cache (src/py2rest.py): the cache dictionary maps a key to a link   *)
(* of a circular doubly linked list; a link is [PREV, NEXT, KEY, RESULT]   *)
(* and the list runs from the least to the most recently used key, closed  *)
(* by the root link.  Links are numbered; results are numbered objects.    *)
(***************************************************************************)
\* an item of a key, and None as a link's KEY and as a link's RESULT
KeyItem(n, v) == [n |-> n, v |-> v]
NoKey == <<KeyItem("None", V("NoneType", "None"))>>
NoResult == 0

\* [PREV, NEXT, KEY, RESULT]
Link(prev, next, key, result) == [prev |-> prev, next |-> next, key |-> key, result |-> result]

\* decorating_function: cache = dict(), stats = [0, 0], root[:] = [root, root, None, None]
LruNew ==
    [cache |-> <<>>,
     links |-> (0 :> Link(0, 0, NoKey, NoResult)),
     root |-> 0,
     hits |-> 0,
     misses |-> 0]

\* the number of a link that is created: the first one no live link has
NewLink(links) == CHOOSE n \in 0..Cardinality(DOMAIN links) :
                      /\ n \notin DOMAIN links
                      /\ \A m \in 0..(n - 1) : m \in DOMAIN links

\* sorted(kwds.items()) for the keyword names of the constructor
SortedNames == <<"dflt_greeting", "user">>

RECURSIVE SortedItems(_, _)
SortedItems(kwds, i) ==
    IF i > Len(SortedNames) THEN <<>>
    ELSE (IF SortedNames[i] \in DOMAIN kwds
          THEN <<KeyItem(SortedNames[i], kwds[SortedNames[i]])>> ELSE <<>>)
         \o SortedItems(kwds, i + 1)

\* the key of a call with keyword arguments only: args (the empty tuple)
\* when there is none, else _make_key: the mark, then the sorted items
_make_key(kwds) ==
    IF DOMAIN kwds = {} THEN <<>>
    ELSE <<KeyItem("kwd_mark", V("object", ""))>> \o SortedItems(kwds, 1)

\* the hit that leaves the link where it is in the list
LruHitNoMove(c, key) ==
    [c EXCEPT !.hits = c.hits + 1]

\* wrapper, first locked section, link is not None: the link is moved to
\* the front of the list and its result returned
LruHit(c, key) ==
    LET link == c.cache[key]
        link_prev == c.links[link].prev
        link_next == c.links[link].next
        L1 == [c.links EXCEPT ![link_prev].next = link_next]
        L2 == [L1 EXCEPT ![link_next].prev = link_prev]
        last == L2[c.root].prev
        L3 == [L2 EXCEPT ![last].next = link]
        L4 == [L3 EXCEPT ![c.root].prev = link]
        L5 == [L4 EXCEPT ![link].prev = last]
        L6 == [L5 EXCEPT ![link].next = c.root]
    IN  [c EXCEPT !.links = L6, !.hits = c.hits + 1]

\* wrapper, second locked section, when it ends by "del cache[oldkey]" on a
\* key the dictionary has not
LruStoreRaises(c, key, cache_size) ==
    /\ key \notin DOMAIN c.cache
    /\ Cardinality(DOMAIN c.cache) >= cache_size
    /\ LET L1 == [c.links EXCEPT ![c.root].key = key]
           root == L1[c.root].next
       IN  L1[root].key \notin DOMAIN c.cache

\* the store that evicts only once the cache holds more than cache_size keys
LruStoreLate(c, key, result, cache_size) ==
    IF key \in DOMAIN c.cache
    THEN [c EXCEPT !.misses = c.misses + 1]
    ELSE IF Cardinality(DOMAIN c.cache) > cache_size
    THEN LET oldroot == c.root
             L1 == [c.links EXCEPT ![oldroot].key = key, ![oldroot].result = result]
             root == L1[oldroot].next
             oldkey == L1[root].key
             L2 == [L1 EXCEPT ![root].key = NoKey, ![root].result = NoResult]
             cache1 == [k \in DOMAIN c.cache \ {oldkey} |-> c.cache[k]]
         IN  [c EXCEPT !.links = L2, !.root = root,
                       !.cache = (key :> oldroot) @@ cache1,
                       !.misses = c.misses + 1]
    ELSE LET last == c.links[c.root].prev
             link == NewLink(c.links)
             L1 == (link :> Link(last, c.root, key, result)) @@ c.links
             L2 == [L1 EXCEPT ![last].next = link]
             L3 == [L2 EXCEPT ![c.root].prev = link]
         IN  [c EXCEPT !.links = L3,
                       !.cache = (key :> link) @@ c.cache,
                       !.misses = c.misses + 1]

\* wrapper, second locked section: the result of a miss is stored
LruStore(c, key, result, cache_size) ==
    IF key \in DOMAIN c.cache
    THEN [c EXCEPT !.misses = c.misses + 1]
    ELSE IF Cardinality(DOMAIN c.cache) >= cache_size
    THEN LET oldroot == c.root
             L1 == [c.links EXCEPT ![oldroot].key = key, ![oldroot].result = result]
             root == L1[oldroot].next
             oldkey == L1[root].key
             L2 == [L1 EXCEPT ![root].key = NoKey, ![root].result = NoResult]
             cache1 == [k \in DOMAIN c.cache \ {oldkey} |-> c.cache[k]]
         IN  [c EXCEPT !.links = L2, !.root = root,
                       !.cache = (key :> oldroot) @@ cache1,
                       !.misses = c.misses + 1]
    ELSE LET last == c.links[c.root].prev
             link == NewLink(c.links)
             L1 == (link :> Link(last, c.root, key, result)) @@ c.links
             L2 == [L1 EXCEPT ![last].next = link]
             L3 == [L2 EXCEPT ![c.root].prev = link]
         IN  [c EXCEPT !.links = L3,
                       !.cache = (key :> link) @@ c.cache,
                       !.misses = c.misses + 1]

\* the clear that empties the dictionary and leaves the list as it is
LruClearKeepsList(c) ==
    [c EXCEPT !.cache = <<>>, !.hits = 0, !.misses = 0]

\* cache_clear
LruClear(c) ==
    [cache |-> <<>>,
     links |-> (c.root :> Link(c.root, c.root, NoKey, NoResult)),
     root |-> c.root,
     hits |-> 0,
     misses |-> 0]

RECURSIVE LruWalk(_, _, _)
\* the keys of the links from link to the root, following NEXT (at most n links)
LruWalk(c, link, n) ==
    IF link = c.root \/ n = 0 THEN <<>>
    ELSE <<c.links[link].key>> \o LruWalk(c, c.links[link].next, n - 1)

\* the keys in the list, least recently used first
LruKeys(c) == LruWalk(c, c.links[c.root].next, Cardinality(DOMAIN c.links))

(***************************************************************************)
(* State                                                                   *)
(***************************************************************************)
VARIABLES
    pa_impl,      \* which PermissibleAttr: "util" (src/util.py) or "py2api.util"
    pa_attrs,     \* the permissible_attrs it is given
    pa_pattern,   \* self.permissible_attr_pattern
    pa_attr,      \* the attr of the last __call__
    pa_result,    \* what the last __call__ returned
    pa_pc,        \* "new", "built", "called", "raised"
    st_impl,      \* which search_trans_func: "py2api.py2rest" or "py2rest"
    st_spec,      \* the trans_spec searched
    st_attr,      \* the attr, argname, val and source searched for
    st_argname,
    st_val,
    st_source,
    st_result,    \* what search_trans_func returned
    st_pc,        \* "new", "done"
    self,         \* the configuration of the ObjWrap and of its InputTrans
    dflt_spec,    \* InputTrans.dflt_spec: attr -> {argname: default}
    ndispatch,    \* number of dispatches started
    request,      \* the request of the current dispatch: [args, json]
    route_args,   \* its route arguments
    pc,           \* where the current dispatch is
    attr,         \* local variables of InputTrans.__call__ and ObjWrap.__call__
    input_dict,
    aliased,      \* input_dict is the very dict stored in dflt_spec[attr]
    src_i,        \* index in self.sources of the source being read
    pending,      \* keys of that source not read yet
    permitted,    \* "unchecked", "yes", "no": self.permissible_attr(attr)
    obj_attr,     \* the resolved leaf
    outcome,      \* how the dispatch ended
    trace,        \* calls made during the dispatch, in order
    collected,    \* the mapping self.input_trans returned
    obj_kwargs,   \* the keyword arguments self.obj_constructor was called with
    call_kwargs,  \* the keyword arguments the leaf target was called with
    root_id,      \* the root object the leaf was resolved on, with its identity
    wrapper_calls, \* the calls of the lru_cache wrapper and of cache_clear so far
    lru,          \* lru_cache: cache, the linked list, its root, stats
    cache_size,   \* lru_cache: cache_size
    th,           \* lru_cache: where each thread is in wrapper
    ncalls,       \* lru_cache: number of calls of wrapper so far
    lock,         \* lru_cache: the thread that holds lock (0: none)
    recency,      \* lru_cache: the cached keys, the least recently accessed first
    ot_spec,      \* OutputTrans: the trans_spec given to __init__
    ot_trans_spec, \* OutputTrans: self.trans_spec
    ot_val,       \* OutputTrans.__call__: val, attr, output_trans
    ot_attr,
    ot_output_trans,
    ot_result,    \* what OutputTrans.__call__ returned or raised
    ot_pc,        \* "new", "built", "called"
    by_value,     \* the build: compiled patterns compare and hash by value
                  \* (Python 3.7 and later) or by identity (Python 2.7)
    re_cache,     \* re: the compiled patterns re.compile has cached
    re_made,      \* re: number of pattern objects made so far
    _matches_,    \* MatchAttr._matches_
    ma_at,        \* the _at slot of each MatchAttr object
    ma_hist       \* the MatchAttr calls made: argument and object returned

attrVars == <<pa_impl, pa_attrs, pa_pattern, pa_attr, pa_result, pa_pc>>

searchVars == <<st_impl, st_spec, st_attr, st_argname, st_val, st_source, st_result, st_pc>>

dispatchVars == <<self, dflt_spec, ndispatch, request, route_args, pc, attr, input_dict,
                  aliased, src_i, pending, permitted, obj_attr, outcome, trace,
                  collected, obj_kwargs, call_kwargs, root_id, wrapper_calls>>

lruVars == <<lru, cache_size, th, ncalls, lock, recency>>

outVars == <<ot_spec, ot_trans_spec, ot_val, ot_attr, ot_output_trans, ot_result, ot_pc>>

matchVars == <<by_value, re_cache, re_made, _matches_, ma_at, ma_hist>>

vars == <<attrVars, searchVars, dispatchVars, lruVars, outVars, matchVars>>

(***************************************************************************)
(* Matchers on their own: a PermissibleAttr is built from a specification  *)
(* and then asked about attribute paths.                                   *)
(***************************************************************************)
MaxInclude == 2
MaxExclude == 1

IncludeEntries == {"a", "a.b", "a.c", "a.*", "a.b.*", "a\\.*"}
ExcludeEntries == {"a", "a.b", "a.b$"}
AttrPaths == {"a", "a.b", "a.c", "a.b.c", "a.c.d", "aab", "b"}

SeqsUpTo(S, n) == UNION {[1..m -> S] : m \in 0..n}

IncludeLists == SeqsUpTo(IncludeEntries, MaxInclude)
ExcludeLists == SeqsUpTo(ExcludeEntries, MaxExclude)

PermissionDicts ==
    {<<>>}
      \cup {[include |-> i] : i \in IncludeLists}
      \cup {[exclude |-> e] : e \in ExcludeLists}
      \cup {[include |-> i, exclude |-> e] : i \in IncludeLists, e \in ExcludeLists}

PermissibleAttrsSpecs ==
    {NoneV}
      \cup {ListV(i) : i \in IncludeLists}
      \cup {DictV(d) : d \in PermissionDicts}
      \cup {StrV(s) : s \in {"", "a.b$", "a.*"}}

Unbuilt == [k |-> "unbuilt", re |-> ""]

NoTarget == [kind |-> "None", name |-> "", obj |-> Controller(<<>>)]

\* a call that was not made, and a call made with the keyword arguments kw
NotCalled == [called |-> FALSE, kw |-> <<>>]
CalledWith(kw) == [called |-> TRUE, kw |-> kw]

\* root objects: none yet, the object given as obj_constructor, or the object
\* that the constructor call of dispatch n built
NoObject == [how |-> "none", n |-> 0, obj |-> Controller(<<>>)]
GivenObject == [how |-> "given", n |-> 0, obj |-> Controller(<<>>)]
BuiltObject(n, kwargs) == [how |-> "built", n |-> n, obj |-> Controller(kwargs)]

\* ObjWrap.__init__: output_trans is None, self.output_trans is the identity
NoOutputTrans == [k |-> "_output_trans", f |-> "", d |-> <<>>]

IdleLru ==
    /\ lru = LruNew
    /\ cache_size = 0
    /\ th = <<>>
    /\ ncalls = 0
    /\ lock = 0
    /\ recency = <<>>

IdleOut ==
    /\ ot_spec = TRANS_NOT_FOUND
    /\ ot_trans_spec = Dict(<<>>)
    /\ ot_val = NoneVal
    /\ ot_attr = NoAttr
    /\ ot_output_trans = NoMode
    /\ ot_result = Converted(NoneVal)
    /\ ot_pc = "idle"

IdleMatch ==
    /\ by_value = TRUE
    /\ re_cache = <<>>
    /\ re_made = 0
    /\ _matches_ = <<>>
    /\ ma_at = <<>>
    /\ ma_hist = <<>>

IdleSearch ==
    /\ st_impl = "none"
    /\ st_spec = TRANS_NOT_FOUND
    /\ st_attr = ""
    /\ st_argname = ""
    /\ st_val = NoneVal
    /\ st_source = NoSource
    /\ st_result = TRANS_NOT_FOUND
    /\ st_pc = "idle"

IdleDispatch ==
    /\ self = [permissible_attrs |-> NoneV, permissible_attr_pattern |-> NoPattern,
               trans_spec |-> Dict(<<>>), sources |-> <<>>,
               obj_constructor |-> "class", output_trans |-> NoOutputTrans]
    /\ dflt_spec = <<>>
    /\ ndispatch = 0
    /\ request = [args |-> <<>>, json |-> <<>>]
    /\ route_args = <<>>
    /\ pc = "off"
    /\ attr = ""
    /\ input_dict = <<>>
    /\ aliased = FALSE
    /\ src_i = 0
    /\ pending = {}
    /\ permitted = "unchecked"
    /\ obj_attr = NoTarget
    /\ outcome = Pending
    /\ trace = <<>>
    /\ collected = <<>>
    /\ obj_kwargs = NotCalled
    /\ call_kwargs = NotCalled
    /\ root_id = NoObject
    /\ wrapper_calls = <<>>

IdleAttr ==
    /\ pa_impl = "none"
    /\ pa_attrs = NoneV
    /\ pa_pattern = Unbuilt
    /\ pa_attr = ""
    /\ pa_result = FALSE
    /\ pa_pc = "idle"

InitAttr ==
    /\ IdleSearch /\ IdleDispatch /\ IdleLru /\ IdleOut /\ IdleMatch
    /\ pa_impl \in {"util", "py2api.util"}
    /\ pa_attrs \in PermissibleAttrsSpecs
    /\ pa_pattern = Unbuilt
    /\ pa_attr = ""
    /\ pa_result = FALSE
    /\ pa_pc = "new"

\* src/util.py PermissibleAttr.__init__
util_PermissibleAttr_init ==
    /\ pa_pc = "new" /\ pa_impl = "util"
    /\ pa_pattern' = util_PermissibleAttr(pa_attrs)
    /\ pa_pc' = IF pa_pattern'.k = "raise" THEN "raised" ELSE "built"
    /\ UNCHANGED <<pa_impl, pa_attrs, pa_attr, pa_result, searchVars, dispatchVars, lruVars, outVars, matchVars>>

\* src/util.py PermissibleAttr.__call__
util_PermissibleAttr_call ==
    /\ pa_pc \in {"built", "called"} /\ pa_impl = "util"
    /\ \E a \in AttrPaths :
          /\ pa_attr' = a
          /\ pa_result' = util_permits(pa_pattern, a)
    /\ pa_pc' = "called"
    /\ UNCHANGED <<pa_impl, pa_attrs, pa_pattern, searchVars, dispatchVars, lruVars, outVars, matchVars>>

\* py2api/util.py PermissibleAttr.__init__
PermissibleAttr_init ==
    /\ pa_pc = "new" /\ pa_impl = "py2api.util"
    /\ pa_pattern' = PermissibleAttr(pa_attrs)
    /\ pa_pc' = IF pa_pattern'.k = "raise" THEN "raised" ELSE "built"
    /\ UNCHANGED <<pa_impl, pa_attrs, pa_attr, pa_result, searchVars, dispatchVars, lruVars, outVars, matchVars>>

\* py2api/util.py PermissibleAttr.__call__
PermissibleAttr_call ==
    /\ pa_pc \in {"built", "called"} /\ pa_impl = "py2api.util"
    /\ \E a \in AttrPaths :
          /\ pa_attr' = a
          /\ pa_result' = permits(pa_pattern, a)
    /\ pa_pc' = "called"
    /\ UNCHANGED <<pa_impl, pa_attrs, pa_pattern, searchVars, dispatchVars, lruVars, outVars, matchVars>>

NextAttr ==
    \/ util_PermissibleAttr_init
    \/ util_PermissibleAttr_call
    \/ PermissibleAttr_init
    \/ PermissibleAttr_call

SpecAttr == InitAttr /\ [][NextAttr]_vars

(***************************************************************************)
(* Properties of the matchers                                              *)
(***************************************************************************)
\* d is a proper descendant of the dotted path e
IsDescendant(d, e) ==
    /\ Len(d) > Len(e) + 1
    /\ SubSeq(d, 1, Len(e) + 1) = e \o "."

IsPlainPath(e) == ~EndsWith(e, "*") /\ ~EndsWith(e, "$")

\* the include list a src/util.py matcher was built from (a list, or a
\* mapping that has only an include list)
IncludeOnly ==
    IF pa_attrs.t = "list" THEN pa_attrs.v
    ELSE IF pa_attrs.t = "dict" /\ DOMAIN pa_attrs.v = {"include"} THEN pa_attrs.v.include
    ELSE <<>>

\* C3: src/util.py, include list only.  An entry that does not end in a
\* wildcard permits its own complete path, and a list of that single entry
\* rejects every descendant of the path; an entry "p.*" permits p and every
\* descendant of p.
C3_Anchoring ==
    (pa_impl = "util" /\ pa_pc = "called") =>
        \A i \in 1..Len(IncludeOnly) :
            LET e == IncludeOnly[i] IN
            /\ (IsPlainPath(e) /\ pa_attr = e) => pa_result
            /\ (IsPlainPath(e) /\ Len(IncludeOnly) = 1 /\ IsDescendant(pa_attr, e))
                   => ~pa_result
            /\ (EndsWith(e, ".*") /\ ~EndsWith(e, "\\.*")
                  /\ (pa_attr = DropLast(e, 2) \/ IsDescendant(pa_attr, DropLast(e, 2))))
                   => pa_result

C3_Witness ==
    /\ pa_impl = "util" /\ pa_pc = "called"
    /\ pa_attrs = ListV(<<"a.b">>)
    /\ pa_attr = "a.b.c"
    /\ pa_result = FALSE

\* C4: a path that an exclude entry names is not permitted, even if an
\* include pattern matches it (include ['a.*'], exclude ['a.b']: 'a.b' is
\* rejected).
C4_ExcludePrecedence ==
    (/\ pa_pc = "called"
     /\ pa_attrs.t = "dict"
     /\ "exclude" \in DOMAIN pa_attrs.v
     /\ \E i \in 1..Len(pa_attrs.v.exclude) : pa_attrs.v.exclude[i] = pa_attr)
        => ~pa_result


(***************************************************************************)
(* search_trans_func on its own: a trans_spec is searched for one          *)
(* (source, attr, argname, val).                                           *)
(***************************************************************************)
\* what an axis entry of the searched specs can be: a transform, an empty
\* dict, or a nested spec
SearchLeaves == {Fn("int"), Fn("float"), Dict(<<>>), Dict(_ELSE :> Fn("str"))}

\* an axis that is absent or has one entry, for the key key
AxisOptions(axis, key) == {<<>>} \cup {axis :> (key :> l) : l \in SearchLeaves}
ElseOptions == {<<>>} \cup {_ELSE :> l : l \in SearchLeaves}

\* the value-type axis: absent, or one entry for str that is a transform or
\* a nested spec
ValtypeLeaves == {Fn("int"), Dict(_ELSE :> Fn("float"))}
SearchValtypeOptions == {<<>>} \cup {_VALTYPE :> <<<<"str", l>>>> : l \in ValtypeLeaves}

SearchSpecs ==
    {Fn("int")} \cup
    {Dict(s @@ a @@ n @@ t @@ e) : s \in AxisOptions(_SOURCE, _ARGS),
                              a \in AxisOptions(_ATTR, "f"),
                              n \in AxisOptions(_ARGNAME, "x"),
                              t \in SearchValtypeOptions,
                              e \in ElseOptions}

InitSearch ==
    /\ IdleAttr /\ IdleDispatch /\ IdleLru /\ IdleOut /\ IdleMatch
    /\ st_impl \in {"py2api.py2rest", "py2rest", "output_trans"}
    /\ st_spec \in SearchSpecs
    /\ st_attr \in {"f", "g"}
    /\ st_argname \in {"x", "y"}
    /\ st_val \in {V("str", "5"), V("int", "7")}
    /\ st_source \in {NoSource, _ARGS, _JSON}
    /\ st_result = TRANS_NOT_FOUND
    /\ st_pc = "new"

\* InputTrans.search_trans_func (py2api/py2rest/input_trans.py)
SearchTransFunc ==
    /\ st_pc = "new" /\ st_impl = "py2api.py2rest"
    /\ st_result' = search_trans_func(st_attr, st_argname, st_val, st_spec, st_source)
    /\ st_pc' = "done"
    /\ UNCHANGED <<st_impl, st_spec, st_attr, st_argname, st_val, st_source,
                   attrVars, dispatchVars, lruVars, outVars, matchVars>>

\* InputTrans.search_trans_func (src/py2rest/input_trans.py)
RestSearchTransFunc ==
    /\ st_pc = "new" /\ st_impl = "py2rest"
    /\ st_result' = rest_search_trans_func(st_attr, st_argname, st_val, st_spec, st_source)
    /\ st_pc' = "done"
    /\ UNCHANGED <<st_impl, st_spec, st_attr, st_argname, st_val, st_source,
                   attrVars, dispatchVars, lruVars, outVars, matchVars>>

\* OutputTrans.search_trans_func (py2api/output_trans.py), called without
\* output_trans
OutSearchTransFunc ==
    /\ st_pc = "new" /\ st_impl = "output_trans"
    /\ st_result' = out_search_trans_func(st_attr, st_val, st_spec, NoMode)
    /\ st_pc' = "done"
    /\ UNCHANGED <<st_impl, st_spec, st_attr, st_argname, st_val, st_source,
                   attrVars, dispatchVars, lruVars, outVars, matchVars>>

NextSearch == SearchTransFunc \/ RestSearchTransFunc \/ OutSearchTransFunc

SpecSearch == InitSearch /\ [][NextSearch]_vars

\* the entry of st_spec on an axis for a key (TRANS_NOT_FOUND: no entry)
EntryOf(axis, key) ==
    IF st_spec.k = "dict"
    THEN DictGet(DictGet(st_spec.d, axis, <<>>), key, TRANS_NOT_FOUND)
    ELSE TRANS_NOT_FOUND
ElseEntry ==
    IF st_spec.k = "dict" THEN DictGet(st_spec.d, _ELSE, TRANS_NOT_FOUND)
    ELSE TRANS_NOT_FOUND

\* C6: with transforms on the source, attribute, argname and fallback axes
\* of one level, the search returns the source entry's transform when the
\* source has an entry, and the attribute entry's transform when no source
\* is given or the source has no entry.
C6_ResolverOrder ==
    (/\ st_pc = "done" /\ st_impl \in {"py2api.py2rest", "py2rest"}
     /\ callable(EntryOf(_SOURCE, _ARGS))
     /\ callable(EntryOf(_ATTR, st_attr))
     /\ callable(EntryOf(_ARGNAME, st_argname))
     /\ callable(ElseEntry))
        => st_result = IF st_source = _ARGS THEN EntryOf(_SOURCE, _ARGS)
                       ELSE EntryOf(_ATTR, st_attr)

\* C7: py2api/py2rest/input_trans.py.  When the source axis does not
\* resolve and the level has a transform for the attribute or for the
\* argname, that transform is the result, whatever the level's _else is.
C7_ElseLast ==
    (/\ st_pc = "done" /\ st_impl = "py2api.py2rest"
     /\ (st_source = NoSource \/ EntryOf(_SOURCE, st_source) = TRANS_NOT_FOUND)
     /\ ElseEntry # TRANS_NOT_FOUND
     /\ (callable(EntryOf(_ATTR, st_attr)) \/ callable(EntryOf(_ARGNAME, st_argname))))
        => st_result = IF callable(EntryOf(_ATTR, st_attr)) THEN EntryOf(_ATTR, st_attr)
                       ELSE EntryOf(_ARGNAME, st_argname)


(***************************************************************************)
(* Dispatch: ObjWrap.__call__ with an InputTrans as input_trans, on the    *)
(* controller of py2api/examples/wrapping_a_class.py                       *)
(***************************************************************************)
MaxDispatches == 2

obj_constructor_arg_names == <<"user", "dflt_greeting">>

ExamplePermissibleAttr == <<"greet", "fcalc.compute", "fcalc.whoami", "icalc.compute">>

ObjPermissibleAttrs ==
    {NoneV, ListV(<<>>), DictV(<<>>), StrV(""),
     ListV(ExamplePermissibleAttr), StrV("greet$|fcalc\\.compute$")}

\* the trans_spec of the example
ExampleTransSpec ==
    Dict(_ATTR :> ("fcalc.compute" :> Dict(_ARGNAME :> ("op" :> Fn("get_float_operator_func")))
                   @@ "icalc.compute" :> Dict(_ARGNAME :> ("op" :> Fn("get_int_operator_func"))))
         @@ _ARGNAME :> ("x" :> Fn("float") @@ "y" :> Fn("float")))

TransSpecs == {Dict(<<>>), ExampleTransSpec}

DfltSpecs ==
    {<<>>,
     "fcalc.compute" :> ("x" :> V("int", "1") @@ "op" :> V("function", "+")
                           @@ "y" :> V("int", "1"))}

SourceOrders == {<<_JSON, _ARGS, _ROUTE>>, <<_ARGS, _JSON>>}

\* a dict that has the key k, with a value of vals, or has not
OptEntry(k, vals) == {<<>>} \cup {k :> v : v \in vals}

RequestAttrs == {"greet", "fcalc.compute", "do_not_give_access_to_this", "nosuch"}

RequestArgs ==
    {a @@ x @@ u : a \in OptEntry(ATTR, {V("str", p) : p \in RequestAttrs}),
                   x \in OptEntry("x", {V("str", "5"), V("str", "abc")}),
                   u \in OptEntry("user", {V("str", "me")})}

RequestJson == OptEntry("x", {V("int", "7")})

RouteArgs == {<<>>, "x" :> V("str", "9"), "xy" :> V("str", "9"), ATTR :> V("str", "greet")}

\* no request has arrived yet
NoDispatchYet ==
    /\ ndispatch = 0
    /\ request = [args |-> <<>>, json |-> <<>>]
    /\ route_args = <<>>
    /\ pc = "idle"
    /\ attr = ""
    /\ input_dict = <<>>
    /\ aliased = FALSE
    /\ src_i = 0
    /\ pending = {}
    /\ permitted = "unchecked"
    /\ obj_attr = NoTarget
    /\ outcome = Pending
    /\ trace = <<>>
    /\ collected = <<>>
    /\ obj_kwargs = NotCalled
    /\ call_kwargs = NotCalled
    /\ root_id = NoObject
    /\ wrapper_calls = <<>>

\* ObjWrap.__init__ and InputTrans.__init__: the wrapped class is the
\* constructor and no output_trans is given
Init ==
    /\ IdleAttr /\ IdleSearch /\ IdleLru /\ IdleOut /\ IdleMatch
    /\ \E pa \in ObjPermissibleAttrs, ts \in TransSpecs, so \in SourceOrders :
          self = [permissible_attrs |-> pa,
                  permissible_attr_pattern |-> PermissibleAttr(pa),
                  trans_spec |-> ts,
                  sources |-> so,
                  obj_constructor |-> "class",
                  output_trans |-> NoOutputTrans]
    /\ dflt_spec \in DfltSpecs
    /\ NoDispatchYet

\* the keys that iterating the data of a source yields
SourceKeys(source) ==
    IF source = _ROUTE THEN DOMAIN route_args
    ELSE IF source = _JSON THEN DOMAIN request.json
    ELSE DOMAIN request.args

RECURSIVE NextSourceFrom(_)
\* the first source at or after index i that yields something (Len+1: none)
NextSourceFrom(i) ==
    IF i > Len(self.sources) THEN i
    ELSE IF SourceKeys(self.sources[i]) # {} THEN i
    ELSE NextSourceFrom(i + 1)

\* input_dict is assigned; the write lands in dflt_spec when the dict is shared
WriteInput(new) ==
    /\ input_dict' = new
    /\ dflt_spec' = IF aliased THEN DictSet(dflt_spec, attr, new) ELSE dflt_spec

Fail(exc, at) ==
    /\ outcome' = Raise(exc, at)
    /\ pc' = "done"

\* what a dispatch leaves alone outside the ObjWrap and its constructor
restVars == <<attrVars, searchVars, outVars, matchVars, cache_size, th, ncalls, lock, recency>>

\* a call of the wrapper: its keyword arguments, what it returned, whether it
\* called user_function, and the keys the cache holds after it
WrapperCall(kwds, result, called, c) ==
    [op |-> "call", kwds |-> kwds, result |-> result, called |-> called,
     cached |-> DOMAIN c.cache]

\* a request arrives: ObjWrap.__call__(request, **route_args) is entered
ReceiveFrom(args, jsons, routes, max) ==
    /\ pc \in {"idle", "done"}
    /\ ndispatch < max
    /\ ndispatch' = ndispatch + 1
    /\ \E a \in args, j \in jsons : request' = [args |-> a, json |-> j]
    /\ route_args' \in routes
    /\ pc' = "get_attr"
    /\ attr' = ""
    /\ input_dict' = <<>>
    /\ aliased' = FALSE
    /\ src_i' = 0
    /\ pending' = {}
    /\ permitted' = "unchecked"
    /\ obj_attr' = NoTarget
    /\ outcome' = Pending
    /\ trace' = <<>>
    /\ collected' = <<>>
    /\ obj_kwargs' = NotCalled
    /\ call_kwargs' = NotCalled
    /\ root_id' = NoObject
    /\ UNCHANGED <<self, dflt_spec, lru, wrapper_calls, restVars>>

Receive == ReceiveFrom(RequestArgs, RequestJson, RouteArgs, MaxDispatches)

\* InputTrans.__call__: attr = self._get_attr_from_request(request), called
\* without the route arguments, then input_dict = self.dflt_spec.get(attr, {})
GetAttr ==
    /\ pc = "get_attr"
    /\ IF ATTR \notin DOMAIN request.args
       THEN /\ Fail("KeyError", "_get_attr_from_request")
            /\ UNCHANGED <<attr, input_dict, aliased, src_i, pending>>
       ELSE /\ attr' = request.args[ATTR].v
            /\ input_dict' = DictGet(dflt_spec, attr', <<>>)
            /\ aliased' = (attr' \in DOMAIN dflt_spec)
            /\ src_i' = NextSourceFrom(1)
            /\ pending' = IF src_i' > Len(self.sources) THEN {}
                          ELSE SourceKeys(self.sources[src_i'])
            /\ pc' = "collect"
            /\ UNCHANGED outcome
    /\ UNCHANGED <<self, dflt_spec, ndispatch, request, route_args, permitted, obj_attr,
                   trace, collected, obj_kwargs, call_kwargs, root_id, lru, wrapper_calls, restVars>>

\* after the item key of the current source: the rest of it, or the next source
Advance(key) ==
    IF pending \ {key} # {}
    THEN /\ pending' = pending \ {key}
         /\ UNCHANGED src_i
    ELSE /\ src_i' = NextSourceFrom(src_i + 1)
         /\ pending' = IF src_i' > Len(self.sources) THEN {}
                       ELSE SourceKeys(self.sources[src_i'])

\* InputTrans.__call__: one turn of "for argname, val in request_data"
CollectArg ==
    /\ pc = "collect"
    /\ src_i <= Len(self.sources)
    /\ \E key \in pending :
         LET source == self.sources[src_i]
             \* the route arguments are iterated as a dict: each item is a
             \* key, unpacked into (argname, val)
             unpacks == source # _ROUTE \/ Len(key) = 2
             argname == IF source = _ROUTE THEN Ch(key, 1) ELSE key
             val == IF source = _ROUTE THEN V("str", Ch(key, 2))
                    ELSE IF source = _JSON THEN request.json[key]
                    ELSE request.args[key]
             trans_func == search_trans_func(attr, argname, val, self.trans_spec, source)
             converted == ApplyTrans(trans_func.f, val)
         IN  IF ~unpacks
             THEN /\ Fail("ValueError", "unpack")
                  /\ UNCHANGED <<input_dict, dflt_spec, src_i, pending, trace>>
             ELSE IF argname = ATTR
             THEN /\ Advance(key)
                  /\ UNCHANGED <<input_dict, dflt_spec, pc, outcome, trace>>
             ELSE IF trans_func = TRANS_NOT_FOUND
             THEN /\ WriteInput(DictSet(input_dict, argname, val))
                  /\ Advance(key)
                  /\ UNCHANGED <<pc, outcome, trace>>
             ELSE /\ trace' = Append(trace, "trans")
                  /\ IF converted.ok
                     THEN /\ WriteInput(DictSet(input_dict, argname, converted.val))
                          /\ Advance(key)
                          /\ UNCHANGED <<pc, outcome>>
                     ELSE /\ Fail(converted.exc, "trans_func")
                          /\ UNCHANGED <<input_dict, dflt_spec, src_i, pending>>
    /\ UNCHANGED <<self, ndispatch, request, route_args, attr, aliased, permitted, obj_attr,
                   collected, obj_kwargs, call_kwargs, root_id, lru, wrapper_calls, restVars>>

\* InputTrans.__call__: input_dict.pop(ATTR, None); return attr, input_dict
InputTransReturn ==
    /\ pc = "collect"
    /\ src_i > Len(self.sources)
    /\ WriteInput(DictDel(input_dict, ATTR))
    /\ collected' = input_dict'
    /\ pc' = "check"
    /\ UNCHANGED <<self, ndispatch, request, route_args, attr, aliased, src_i, pending,
                   permitted, obj_attr, outcome, trace, obj_kwargs, call_kwargs, root_id,
                   lru, wrapper_calls, restVars>>

\* the check without its "raise ForbiddenAttribute(attr)"
CheckAttrNoRaise ==
    /\ pc = "check"
    /\ permitted' = IF attr = NoAttr THEN "unchecked"
                     ELSE IF permits(self.permissible_attr_pattern, attr) THEN "yes"
                     ELSE "no"
    /\ IF attr = NoAttr THEN Fail("MissingAttribute", "ObjWrap")
       ELSE pc' = "construct" /\ UNCHANGED outcome
    /\ UNCHANGED <<self, dflt_spec, ndispatch, request, route_args, attr, input_dict, aliased,
                   src_i, pending, obj_attr, trace, collected, obj_kwargs, call_kwargs,
                   root_id, lru, wrapper_calls, restVars>>

\* ObjWrap.__call__: attr is None / not self.permissible_attr(attr)
CheckAttr ==
    /\ pc = "check"
    /\ permitted' = IF attr = NoAttr THEN "unchecked"
                     ELSE IF permits(self.permissible_attr_pattern, attr) THEN "yes"
                     ELSE "no"
    /\ IF attr = NoAttr THEN Fail("MissingAttribute", "ObjWrap")
       ELSE IF permitted' = "no" THEN Fail("ForbiddenAttribute", "ObjWrap")
       ELSE pc' = "construct" /\ UNCHANGED outcome
    /\ UNCHANGED <<self, dflt_spec, ndispatch, request, route_args, attr, input_dict, aliased,
                   src_i, pending, obj_attr, trace, collected, obj_kwargs, call_kwargs,
                   root_id, lru, wrapper_calls, restVars>>

\* the leaf is resolved on the root object: get_attr_recursively(obj_spec, attr)
Resolve(root) ==
    /\ root_id' = root
    /\ obj_attr' = get_attr_recursively(root.obj, attr)
    /\ pc' = "resolved"
    /\ UNCHANGED outcome

\* the dispatch with an lru_cache wrapper that always calls the constructor
ConstructNoCache ==
    /\ pc = "construct"
    /\ LET names == {obj_constructor_arg_names[i] : i \in 1..Len(obj_constructor_arg_names)}
           kwargs == DictTake(input_dict, names)
           key == _make_key(kwargs)
           built == BuiltObject(ndispatch, kwargs)
       IN  /\ WriteInput(DictDrop(input_dict, names))
           /\ obj_kwargs' = CalledWith(kwargs)
           /\ IF self.obj_constructor = "object"
              THEN /\ IF kwargs # <<>>
                      THEN /\ Fail("TypeError", "obj_constructor")
                           /\ UNCHANGED <<obj_attr, root_id>>
                      ELSE Resolve(GivenObject)
                   /\ UNCHANGED <<trace, lru, wrapper_calls>>
              ELSE IF self.obj_constructor = "lru"
              THEN /\ trace' = Append(trace, "construct")
                   /\ IF LruStoreRaises(lru, key, cache_size)
                      THEN /\ Fail("KeyError", "lru_cache")
                           /\ UNCHANGED <<obj_attr, root_id, lru, wrapper_calls>>
                      ELSE /\ lru' = LruStore(lru, key, built, cache_size)
                           /\ wrapper_calls' = Append(wrapper_calls,
                                                      WrapperCall(kwargs, built, TRUE, lru'))
                           /\ Resolve(built)
              ELSE /\ trace' = Append(trace, "construct")
                   /\ Resolve(built)
                   /\ UNCHANGED <<lru, wrapper_calls>>
    /\ UNCHANGED <<self, ndispatch, request, route_args, attr, aliased, src_i, pending,
                   permitted, collected, call_kwargs, restVars>>

\* ObjWrap.__call__: obj_kwargs are popped and self.obj_attr(obj_kwargs, attr)
\* gets or makes the root object and resolves the leaf.  self.obj_constructor
\* is the wrapped class ("class"), lru_cache(cache_size)(the class) ("lru"),
\* or "lambda: obj_constructor" for an object that is not callable ("object")
Construct ==
    /\ pc = "construct"
    /\ LET names == {obj_constructor_arg_names[i] : i \in 1..Len(obj_constructor_arg_names)}
           kwargs == DictTake(input_dict, names)
           key == _make_key(kwargs)
           built == BuiltObject(ndispatch, kwargs)
       IN  /\ WriteInput(DictDrop(input_dict, names))
           /\ obj_kwargs' = CalledWith(kwargs)
           /\ IF self.obj_constructor = "object"
              THEN \* the lambda takes no argument
                   /\ IF kwargs # <<>>
                      THEN /\ Fail("TypeError", "obj_constructor")
                           /\ UNCHANGED <<obj_attr, root_id>>
                      ELSE Resolve(GivenObject)
                   /\ UNCHANGED <<trace, lru, wrapper_calls>>
              ELSE IF self.obj_constructor = "lru"
              THEN IF key \in DOMAIN lru.cache
                   THEN /\ lru' = LruHit(lru, key)
                        /\ wrapper_calls' =
                             Append(wrapper_calls,
                                    WrapperCall(kwargs, lru.links[lru.cache[key]].result,
                                                FALSE, lru'))
                        /\ Resolve(lru.links[lru.cache[key]].result)
                        /\ UNCHANGED trace
                   ELSE /\ trace' = Append(trace, "construct")
                        /\ IF LruStoreRaises(lru, key, cache_size)
                           THEN /\ Fail("KeyError", "lru_cache")
                                /\ UNCHANGED <<obj_attr, root_id, lru, wrapper_calls>>
                           ELSE /\ lru' = LruStore(lru, key, built, cache_size)
                                /\ wrapper_calls' = Append(wrapper_calls,
                                                           WrapperCall(kwargs, built, TRUE, lru'))
                                /\ Resolve(built)
              ELSE /\ trace' = Append(trace, "construct")
                   /\ Resolve(built)
                   /\ UNCHANGED <<lru, wrapper_calls>>
    /\ UNCHANGED <<self, ndispatch, request, route_args, attr, aliased, src_i, pending,
                   permitted, collected, call_kwargs, restVars>>

\* truth value of a request value
TruthyVal(val) == val.ty # "NoneType" /\ val.v # ""

\* self.output_trans(result, attr, output_trans=output_trans)
OutputTransOf(output_trans_obj, result, attr_, mode) ==
    IF output_trans_obj = NoOutputTrans THEN Converted(result)
    ELSE OutputTrans_call(output_trans_obj, result, attr_, mode)

\* the end of the dispatch: return self.output_trans(result, attr, ...)
Finish(result, mode) ==
    LET out == OutputTransOf(self.output_trans, result, attr, mode)
    IN  outcome' = IF out.ok THEN Return(out.val) ELSE Raise(out.exc, "output_trans")

\* the dispatch that leaves the reserved output-mode name in the call
CallOrGetKeepsReserved ==
    /\ pc = "resolved"
    /\ LET _help == DictGet(input_dict, _HELP, NoneVal)
           kwargs == DictDrop(input_dict, {_HELP})
           mode == IF _OUTPUT_TRANS \in DOMAIN input_dict
                   THEN input_dict[_OUTPUT_TRANS].v ELSE NoMode
           called == CallTarget(obj_attr, kwargs)
       IN  IF TruthyVal(_help)
           THEN /\ WriteInput(DictDel(input_dict, _HELP))
                /\ outcome' = IF obj_attr.kind = "method"
                              THEN Return(V("str", "doc of " \o obj_attr.name))
                              ELSE Raise("TypeError", "enhanced_docstr")
                /\ UNCHANGED <<trace, call_kwargs>>
           ELSE /\ WriteInput(kwargs)
                /\ IF obj_attr.kind = "method"
                   THEN /\ call_kwargs' = CalledWith(kwargs)
                        /\ IF called.kind = "return"
                           THEN /\ Finish(called.val, mode)
                                /\ trace' = trace \o <<"invoke", "output_trans">>
                           ELSE /\ outcome' = called
                                /\ UNCHANGED trace
                   ELSE /\ Finish(IF obj_attr.kind = "value" THEN PropertyValue(obj_attr)
                                  ELSE NoneVal, mode)
                        /\ trace' = Append(trace, "output_trans")
                        /\ UNCHANGED call_kwargs
    /\ pc' = "done"
    /\ UNCHANGED <<self, ndispatch, request, route_args, attr, aliased, src_i, pending,
                   permitted, obj_attr, collected, obj_kwargs, root_id, lru, wrapper_calls, restVars>>

\* ObjWrap.__call__ from the _help pop to the return
CallOrGet ==
    /\ pc = "resolved"
    /\ LET _help == DictGet(input_dict, _HELP, NoneVal)
           kwargs == DictDrop(input_dict, {_HELP, _OUTPUT_TRANS})
           mode == IF _OUTPUT_TRANS \in DOMAIN input_dict
                   THEN input_dict[_OUTPUT_TRANS].v ELSE NoMode
           called == CallTarget(obj_attr, kwargs)
       IN  IF TruthyVal(_help)
           THEN /\ WriteInput(DictDel(input_dict, _HELP))
                /\ outcome' = IF obj_attr.kind = "method"
                              THEN Return(V("str", "doc of " \o obj_attr.name))
                              ELSE Raise("TypeError", "enhanced_docstr")
                /\ UNCHANGED <<trace, call_kwargs>>
           ELSE /\ WriteInput(kwargs)
                /\ IF obj_attr.kind = "method"
                   THEN /\ call_kwargs' = CalledWith(kwargs)
                        /\ IF called.kind = "return"
                           THEN /\ Finish(called.val, mode)
                                /\ trace' = trace \o <<"invoke", "output_trans">>
                           ELSE /\ outcome' = called
                                /\ UNCHANGED trace
                   ELSE /\ Finish(IF obj_attr.kind = "value" THEN PropertyValue(obj_attr)
                                  ELSE NoneVal, mode)
                        /\ trace' = Append(trace, "output_trans")
                        /\ UNCHANGED call_kwargs
    /\ pc' = "done"
    /\ UNCHANGED <<self, ndispatch, request, route_args, attr, aliased, src_i, pending,
                   permitted, obj_attr, collected, obj_kwargs, root_id, lru, wrapper_calls, restVars>>

Next ==
    \/ Receive
    \/ GetAttr
    \/ CollectArg
    \/ InputTransReturn
    \/ CheckAttr
    \/ Construct
    \/ CallOrGet

Spec == Init /\ [][Next]_vars


(***************************************************************************)
(* Properties of the dispatch                                              *)
(***************************************************************************)
InTrace(e) == \E i \in 1..Len(trace) : trace[i] = e

\* C1: when the permission predicate returned false for the attribute path
\* of a dispatch, the dispatch has ended with ForbiddenAttribute and neither
\* the constructor nor the target was called; a dispatch in which either was
\* called has a permitted path.
C1_ForbiddenNeverCalls ==
    /\ permitted = "no" =>
          /\ pc = "done"
          /\ outcome.kind = "raise" /\ outcome.exc = "ForbiddenAttribute"
          /\ ~InTrace("construct") /\ ~InTrace("invoke")
    /\ (InTrace("construct") \/ InTrace("invoke")) =>
          /\ permitted = "yes"
          /\ permits(self.permissible_attr_pattern, attr)

C1_Witness ==
    /\ pc = "done"
    /\ permitted = "no"
    /\ attr = "do_not_give_access_to_this"
    /\ self.permissible_attrs = StrV("greet$|fcalc\\.compute$")
    /\ outcome.exc = "ForbiddenAttribute"

ListNames(l) == {l[i] : i \in 1..Len(l)}

\* C2: an ObjWrap given a list of attribute names forbids every path that
\* is not one of the names: such a dispatch ends with ForbiddenAttribute and
\* calls nothing.
C2_ListPermitsOnlyListed ==
    (/\ self.permissible_attrs.t = "list"
     /\ permitted # "unchecked"
     /\ attr \notin ListNames(self.permissible_attrs.v))
        => /\ permitted = "no"
           /\ outcome.exc = "ForbiddenAttribute"
           /\ ~InTrace("invoke")

\* the request of the current dispatch names an attribute
NamesAttr == pc \notin {"idle", "off"} /\ ATTR \in DOMAIN request.args

\* C5: the matcher built from an empty specification permits no path, and
\* every dispatch of a request that names an attribute ends with
\* ForbiddenAttribute.
C5_EmptySpecForbidsAll ==
    Falsy(self.permissible_attrs) =>
        /\ \A p \in RequestAttrs \cup AttrPaths : ~permits(self.permissible_attr_pattern, p)
        /\ permitted # "yes"
        /\ (pc = "done" /\ NamesAttr) => outcome.exc = "ForbiddenAttribute"

\* the data of a source, keyed by argument name
SourceData(source) ==
    IF source = _ROUTE THEN route_args
    ELSE IF source = _JSON THEN request.json
    ELSE request.args

\* index of the last configured source that contains x (0: none)
LastSourceWith(x) ==
    LET I == {i \in 1..Len(self.sources) : x \in DOMAIN SourceData(self.sources[i])}
    IN  IF I = {} THEN 0 ELSE CHOOSE i \in I : \A j \in I : j <= i

\* the value of x from source number i, transformed if a transform resolves
ValueFrom(x, i) ==
    LET source == self.sources[i]
        val == SourceData(source)[x]
        f == search_trans_func(attr, x, val, self.trans_spec, source)
    IN  IF f = TRANS_NOT_FOUND THEN val ELSE ApplyTrans(f.f, val).val

\* C8: when InputTrans.__call__ returns, every argument name found in a
\* configured source is in the collected mapping with the value of the last
\* configured source that has it (also when dflt_spec has a default for it).
C8_LastSourceWins ==
    pc = "check" =>
        \A i \in 1..Len(self.sources) :
            \A x \in DOMAIN SourceData(self.sources[i]) \ {ATTR} :
                /\ x \in DOMAIN input_dict
                /\ input_dict[x] = ValueFrom(x, LastSourceWith(x))

\* C9: a dispatch of a request without an attribute path, in the query and
\* in the route arguments, ends with MissingAttribute (status 400) and calls
\* neither the constructor nor a target.
C9_MissingAttribute ==
    (/\ pc = "done"
     /\ ATTR \notin DOMAIN request.args
     /\ ATTR \notin DOMAIN route_args)
        => /\ outcome.kind = "raise" /\ outcome.exc = "MissingAttribute"
           /\ status_code(outcome.exc) = 400
           /\ ~InTrace("construct") /\ ~InTrace("invoke")

\* C10: a dispatch in which a transform raised during the collection ends
\* with a BadRequest client error and does not invoke the target.
C10_CoercionBadRequest ==
    (pc = "done" /\ outcome.at = "trans_func")
        => /\ outcome.exc \in ClientErrors
           /\ IsBadRequest(outcome.exc)
           /\ status_code(outcome.exc) = 400
           /\ ~InTrace("invoke")

\* the dispatch resolved its leaf on a path that has a missing segment
UnresolvedPath == InTrace("construct") /\ attr \notin Methods \cup Properties

\* C11: a dispatch for a permitted path that cannot be fully resolved on
\* the root object ends in an error; it never returns a payload.
C11_UnresolvedPathIsError ==
    (pc = "done" /\ permitted = "yes" /\ UnresolvedPath) => outcome.kind = "raise"


(***************************************************************************)
(* Dispatch with the three kinds of obj_constructor, with and without an   *)
(* OutputTrans, on requests that carry constructor arguments and the       *)
(* reserved arguments                                                      *)
(***************************************************************************)
MaxObjDispatches == 3

ObjConstructors == {"class", "object", "lru"}

CacheSizes == {1, 2}

\* an OutputTrans with an entry on each axis
ExampleOutputSpec ==
    Dict(_OUTPUT_TRANS :> ("csv" :> Fn("csv"))
         @@ _ATTR :> ("user" :> Fn("list"))
         @@ _ELSE :> Fn("jdict"))

ObjOutputTrans == {NoOutputTrans, OutputTrans_init(ExampleOutputSpec)}

ObjRequestAttrs == {"greet", "user", "nosuch"}

ObjRequestArgs ==
    {a @@ u @@ g @@ h @@ o :
        a \in {ATTR :> V("str", p) : p \in ObjRequestAttrs},
        u \in OptEntry("user", {V("str", "me")}),
        g \in OptEntry("greeting", {V("str", "Hi")}),
        h \in OptEntry(_HELP, {V("str", "1"), V("str", "")}),
        o \in OptEntry(_OUTPUT_TRANS, {V("str", "csv")})}

\* ObjWrap.__init__ for each kind of obj_constructor and output_trans; every
\* attribute path is permitted
InitObj ==
    /\ IdleAttr /\ IdleSearch /\ IdleOut /\ IdleMatch
    /\ \E oc \in ObjConstructors, ot \in ObjOutputTrans :
          self = [permissible_attrs |-> StrV(".*"),
                  permissible_attr_pattern |-> PermissibleAttr(StrV(".*")),
                  trans_spec |-> Dict(<<>>),
                  sources |-> <<_ARGS>>,
                  obj_constructor |-> oc,
                  output_trans |-> ot]
    /\ dflt_spec = <<>>
    /\ NoDispatchYet
    /\ lru = LruNew
    /\ cache_size \in IF self.obj_constructor = "lru" THEN CacheSizes ELSE {0}
    /\ th = <<>>
    /\ ncalls = 0
    /\ lock = 0
    /\ recency = <<>>

ReceiveObj == ReceiveFrom(ObjRequestArgs, {<<>>}, {<<>>}, MaxObjDispatches)

\* between two dispatches, obj_constructor.cache_clear() is called
CacheClear ==
    /\ pc = "done"
    /\ self.obj_constructor = "lru"
    /\ DOMAIN lru.cache # {}
    /\ lru' = LruClear(lru)
    /\ wrapper_calls' = Append(wrapper_calls,
                               [op |-> "clear", kwds |-> <<>>, result |-> NoObject,
                                called |-> FALSE, cached |-> DOMAIN lru'.cache])
    /\ UNCHANGED <<self, dflt_spec, ndispatch, request, route_args, pc, attr, input_dict,
                   aliased, src_i, pending, permitted, obj_attr, outcome, trace,
                   collected, obj_kwargs, call_kwargs, root_id, restVars>>

NextObj ==
    \/ ReceiveObj
    \/ GetAttr
    \/ CollectArg
    \/ InputTransReturn
    \/ CheckAttr
    \/ Construct
    \/ CallOrGet
    \/ CacheClear

SpecObj == InitObj /\ [][NextObj]_vars

\* the names ObjWrap.__call__ takes out of the collected mapping
ReservedNames ==
    {_HELP, _OUTPUT_TRANS}
        \cup {obj_constructor_arg_names[i] : i \in 1..Len(obj_constructor_arg_names)}

\* C12: the keyword mapping the leaf target is invoked with holds neither the
\* help name, nor the output-mode name, nor a name of obj_constructor_arg_names:
\* it is the collected mapping minus those names, and the constructor was
\* called with the values collected under its argument names.
C12_KwargsStripped ==
    call_kwargs.called =>
        /\ DOMAIN call_kwargs.kw \cap ReservedNames = {}
        /\ call_kwargs.kw = DictDrop(collected, ReservedNames)
        /\ obj_kwargs.called
        /\ obj_kwargs.kw =
             DictTake(collected,
                      {obj_constructor_arg_names[i] : i \in 1..Len(obj_constructor_arg_names)})

C12_Witness ==
    /\ call_kwargs.called
    /\ {_OUTPUT_TRANS, "user", "greeting"} \subseteq DOMAIN collected
    /\ _HELP \in DOMAIN collected
    /\ DOMAIN call_kwargs.kw = {"greeting"}
    /\ obj_kwargs.kw = "user" :> V("str", "me")


HelpAsked ==
    /\ pc = "done"
    /\ permitted = "yes"
    /\ root_id # NoObject
    /\ _HELP \in DOMAIN collected
    /\ TruthyVal(collected[_HELP])

\* C14: a permitted dispatch whose collected input holds a truthy help
\* argument returns the description of the resolved target and ends there:
\* the target is not invoked and the output transform is not applied.
C14_HelpShortCircuits ==
    HelpAsked =>
        /\ outcome = Return(V("str", "doc of " \o obj_attr.name))
        /\ ~InTrace("invoke")
        /\ ~InTrace("output_trans")


\* C18: when obj_constructor is not callable, every dispatch that gets to
\* its root object resolves its target on that very object, whatever
\* constructor-argument values the request carries; they do not make the
\* dispatch fail.
C18_ConstantObjectIgnoresArgs ==
    (self.obj_constructor = "object" /\ obj_kwargs.called)
        => /\ root_id = GivenObject
           /\ outcome # Raise("TypeError", "obj_constructor")


(***************************************************************************)
(* OutputTrans on its own: an OutputTrans is built from a trans_spec and   *)
(* called on values, next to the dispatches of an ObjWrap                  *)
(***************************************************************************)
\* leaves of the trans_specs, each named after the axis it is found on
OutModes == {NoMode, "csv", "json"}
OutAttrs == {NoAttr, "this_attr", "other_attr"}
OutVals ==
    {V("list", "[1, 4, 2, 5]"), V("tuple", "('was', 'a', 'tuple')"),
     V("dict", "{'a': {'b': [1, 2]}}"), V("str", ""), NoneVal}

\* the entries an axis may hold: none, a transform, or a nested trans_spec
ModeOptions ==
    {<<>>,
     _OUTPUT_TRANS :> ("csv" :> Fn("by_mode")),
     _OUTPUT_TRANS :> ("csv" :> Dict(_VALTYPE :> <<<<"list", Fn("by_mode_list")>>>>))}
AttrOptions ==
    {<<>>,
     _ATTR :> ("this_attr" :> Fn("by_attr")),
     _ATTR :> ("this_attr" :> Dict(_VALTYPE :> <<<<"dict", Fn("by_attr_dict")>>>>))}
ValtypeOptions ==
    {<<>>,
     _VALTYPE :> <<<<"list", Fn("by_type")>>>>,
     _VALTYPE :> <<<<"list", Fn("by_type")>>, <<"tuple", Fn("by_type")>>>>}
OutElseOptions == {<<>>, _ELSE :> Fn("by_else")}

OutSpecs ==
    {TRANS_NOT_FOUND, Fn("by_else")}
        \cup {Dict(m @@ a @@ t @@ e) : m \in ModeOptions, a \in AttrOptions,
                                       t \in ValtypeOptions, e \in OutElseOptions}

InitOut ==
    \/ InitObj
    \/ /\ IdleAttr /\ IdleSearch /\ IdleDispatch /\ IdleLru /\ IdleMatch
       /\ ot_spec \in OutSpecs
       /\ ot_trans_spec = Dict(<<>>)
       /\ ot_val = NoneVal
       /\ ot_attr = NoAttr
       /\ ot_output_trans = NoMode
       /\ ot_result = Converted(NoneVal)
       /\ ot_pc = "new"

\* OutputTrans(trans_spec)
OutputTrans__init__ ==
    /\ ot_pc = "new"
    /\ ot_trans_spec' = OutputTrans_init(ot_spec)
    /\ ot_pc' = "built"
    /\ UNCHANGED <<ot_spec, ot_val, ot_attr, ot_output_trans, ot_result,
                   attrVars, searchVars, dispatchVars, lruVars, matchVars>>

\* output_trans(val, attr, output_trans)
OutputTrans__call__ ==
    /\ ot_pc \in {"built", "called"}
    /\ ot_val' \in OutVals
    /\ ot_attr' \in OutAttrs
    /\ ot_output_trans' \in OutModes
    /\ ot_result' = OutputTrans_call(ot_trans_spec, ot_val', ot_attr', ot_output_trans')
    /\ ot_pc' = "called"
    /\ UNCHANGED <<ot_spec, ot_trans_spec,
                   attrVars, searchVars, dispatchVars, lruVars, matchVars>>

NextOut ==
    \/ OutputTrans__init__
    \/ OutputTrans__call__
    \/ NextObj

SpecOut == InitOut /\ [][NextOut]_vars

\* what the target of the dispatch gave: the result of the call, or the leaf
TargetResult ==
    IF obj_attr.kind = "method" THEN CallTarget(obj_attr, call_kwargs.kw).val
    ELSE IF obj_attr.kind = "value" THEN PropertyValue(obj_attr)
    ELSE NoneVal

\* C15: an OutputTrans built with an empty spec (None or {}) returns its
\* input unchanged, whatever the value, the attribute path and the output
\* mode; an ObjWrap built with output_trans=None returns the result of the
\* target unchanged.
C15_EmptySpecIsIdentity ==
    /\ (ot_pc = "called" /\ ot_spec \in {TRANS_NOT_FOUND, Dict(<<>>)})
           => ot_result = Converted(ot_val)
    /\ (pc = "done" /\ self.output_trans = NoOutputTrans /\ InTrace("output_trans"))
           => outcome = Return(TargetResult)

C15_Witness ==
    /\ ot_pc = "called"
    /\ ot_spec = TRANS_NOT_FOUND
    /\ ot_val = V("dict", "{'a': {'b': [1, 2]}}")
    /\ ot_attr = "this_attr"
    /\ ot_output_trans = "csv"
    /\ ot_result = Converted(ot_val)

\* the transform the spec holds for a key of an axis, if it holds one
OutEntry(axis, key) ==
    IF ot_trans_spec.k = "dict" /\ axis \in DOMAIN ot_trans_spec.d
       /\ key \in DOMAIN ot_trans_spec.d[axis]
    THEN ot_trans_spec.d[axis][key]
    ELSE TRANS_NOT_FOUND

\* the transform the spec holds for the type of the value, if it holds one
OutTypeEntry ==
    IF ot_trans_spec.k = "dict" /\ _VALTYPE \in DOMAIN ot_trans_spec.d
    THEN FirstOfType(ot_val, ot_trans_spec.d[_VALTYPE])
    ELSE TRANS_NOT_FOUND

\* C16: OutputTrans resolves in the order output mode, attribute, value
\* type, fallback.  A transform held for the given mode is applied whatever
\* the other axes hold; with no mode given or no entry for the mode, the
\* transform of the attribute is applied before one for the type of the
\* value, and that one before the fallback.
C16_OutputOrder ==
    (ot_pc = "called" /\ ot_trans_spec.k = "dict") =>
        LET by_mode == IF ot_output_trans = NoMode THEN TRANS_NOT_FOUND
                       ELSE OutEntry(_OUTPUT_TRANS, ot_output_trans)
            by_attr == OutEntry(_ATTR, ot_attr)
            by_type == OutTypeEntry
            by_else == IF _ELSE \in DOMAIN ot_trans_spec.d
                       THEN ot_trans_spec.d[_ELSE] ELSE TRANS_NOT_FOUND
        IN  /\ callable(by_mode) => ot_result = ApplyTrans(by_mode.f, ot_val)
            /\ (by_mode = TRANS_NOT_FOUND /\ callable(by_attr))
                  => ot_result = ApplyTrans(by_attr.f, ot_val)
            /\ (by_mode = TRANS_NOT_FOUND /\ by_attr = TRANS_NOT_FOUND /\ callable(by_type))
                  => ot_result = ApplyTrans(by_type.f, ot_val)
            /\ (by_mode = TRANS_NOT_FOUND /\ by_attr = TRANS_NOT_FOUND
                /\ by_type = TRANS_NOT_FOUND /\ callable(by_else))
                  => ot_result = ApplyTrans(by_else.f, ot_val)

C16_Witness ==
    /\ ot_pc = "called"
    /\ ot_output_trans = "csv"
    /\ ot_attr = "this_attr"
    /\ ot_val.ty = "list"
    /\ OutEntry(_OUTPUT_TRANS, "csv") = Fn("by_mode")
    /\ OutEntry(_ATTR, "this_attr") = Fn("by_attr")
    /\ OutTypeEntry = Fn("by_type")
    /\ _ELSE \in DOMAIN ot_trans_spec.d
    /\ ot_result = Converted(V("by_mode", ot_val.v))


(***************************************************************************)
(* lru_cache on its own: threads call a wrapped function and cache_clear.  *)
(* A locked section is one step; the call of user_function, made with the  *)
(* lock released, is a step of its own.                                    *)
(***************************************************************************)
MaxCalls == 4
NThreads == 2

Threads == 1..NThreads

\* the keyword arguments the wrapped function is called with
LruArgs == {<<>>, "user" :> V("str", "me"), "user" :> V("str", "you")}

\* a thread outside wrapper, and a thread inside its call number call of
\* wrapper (0: none)
ThreadIdle(result) == [pc |-> "idle", call |-> 0, key |-> NoKey, result |-> result]
ThreadAt(at, call, key, result) == [pc |-> at, call |-> call, key |-> key, result |-> result]

InitLru ==
    /\ IdleAttr /\ IdleSearch /\ IdleDispatch /\ IdleOut /\ IdleMatch
    /\ lru = LruNew
    /\ cache_size \in CacheSizes
    /\ th = [t \in Threads |-> ThreadIdle(NoResult)]
    /\ ncalls = 0
    /\ lock = 0
    /\ recency = <<>>

\* the sequence without the key
RECURSIVE Without(_, _)
Without(keys, key) ==
    IF Len(keys) = 0 THEN <<>>
    ELSE (IF Head(keys) = key THEN <<>> ELSE <<Head(keys)>>) \o Without(Tail(keys), key)

\* the accesses are recorded: the key was hit or inserted, and only the keys
\* that the cache holds after the step are kept
Accessed(key, c) ==
    LET kept == SelectSeq(Without(recency, key), LAMBDA k : k \in DOMAIN c.cache)
    IN  recency' = kept \o <<key>>

\* "with lock:" is entered by a thread when no other thread holds the lock
\* (an RLock), and left at the end of the block
CanLock(t) == lock \in {0, t}

\* the wrapper that keeps the lock from its lookup to the end of its store
WrapperLookupHoldsLock(t) ==
    /\ th[t].pc = "idle"
    /\ ncalls < MaxCalls
    /\ CanLock(t)
    /\ ncalls' = ncalls + 1
    /\ \E kwds \in LruArgs :
         LET key == _make_key(kwds)
         IN  IF key \in DOMAIN lru.cache
             THEN /\ lru' = LruHit(lru, key)
                  /\ Accessed(key, lru')
                  /\ th' = [th EXCEPT ![t] = ThreadIdle(NoResult)]
                  /\ lock' = 0
             ELSE /\ th' = [th EXCEPT ![t] = ThreadAt("user_function", ncalls + 1, key, NoResult)]
                  /\ lock' = t
                  /\ UNCHANGED <<lru, recency>>
    /\ UNCHANGED <<cache_size, attrVars, searchVars, dispatchVars, outVars, matchVars>>

\* wrapper: the key is made and the first locked section is run
WrapperLookup(t) ==
    /\ th[t].pc = "idle"
    /\ ncalls < MaxCalls
    /\ CanLock(t)
    /\ ncalls' = ncalls + 1
    /\ \E kwds \in LruArgs :
         LET key == _make_key(kwds)
         IN  IF key \in DOMAIN lru.cache
             THEN /\ lru' = LruHit(lru, key)
                  /\ Accessed(key, lru')
                  /\ th' = [th EXCEPT ![t] = ThreadIdle(NoResult)]
                  /\ lock' = 0
             ELSE /\ th' = [th EXCEPT ![t] = ThreadAt("user_function", ncalls + 1, key, NoResult)]
                  /\ lock' = 0
                  /\ UNCHANGED <<lru, recency>>
    /\ UNCHANGED <<cache_size, attrVars, searchVars, dispatchVars, outVars, matchVars>>

\* result = user_function(*args, **kwds): each call gives a new object
UserFunction(t) ==
    /\ th[t].pc = "user_function"
    /\ th' = [th EXCEPT ![t] = ThreadAt("store", th[t].call, th[t].key, th[t].call)]
    /\ UNCHANGED <<lru, cache_size, ncalls, lock, recency, attrVars, searchVars,
                   dispatchVars, outVars, matchVars>>

\* wrapper: the second locked section, and the return
WrapperStore(t) ==
    /\ th[t].pc = "store"
    /\ CanLock(t)
    /\ lock' = 0
    /\ IF LruStoreRaises(lru, th[t].key, cache_size)
       THEN /\ th' = [th EXCEPT ![t] = ThreadAt("KeyError", 0, NoKey, NoResult)]
            /\ UNCHANGED <<lru, recency>>
       ELSE /\ lru' = LruStore(lru, th[t].key, th[t].result, cache_size)
            /\ IF th[t].key \in DOMAIN lru.cache THEN UNCHANGED recency
               ELSE Accessed(th[t].key, lru')
            /\ th' = [th EXCEPT ![t] = ThreadIdle(NoResult)]
    /\ UNCHANGED <<cache_size, ncalls, attrVars, searchVars, dispatchVars, outVars, matchVars>>

\* cache_clear()
cache_clear ==
    /\ lru # LruClear(lru)
    /\ CanLock(0)
    /\ lru' = LruClear(lru)
    /\ recency' = <<>>
    /\ UNCHANGED <<cache_size, th, ncalls, lock, attrVars, searchVars, dispatchVars,
                   outVars, matchVars>>

NextLru ==
    \/ \E t \in Threads : WrapperLookup(t)
    \/ \E t \in Threads : UserFunction(t)
    \/ \E t \in Threads : WrapperStore(t)
    \/ cache_clear

SpecLru == InitLru /\ [][NextLru]_vars

\* C17: whatever calls were made of a function wrapped by
\* lru_cache(cache_size=N), N >= 1, hits, misses and cache_clear included,
\* the cache holds at most N entries.
C17_CacheBounded ==
    cache_size >= 1 => Cardinality(DOMAIN lru.cache) <= cache_size

C17_Witness ==
    /\ cache_size >= 1
    /\ Cardinality(DOMAIN lru.cache) = cache_size
    /\ lru.misses > cache_size
    /\ lru.hits > 0


(***************************************************************************)
(* MatchAttr (py2api/permissible.py).  Objects are numbered: a compiled    *)
(* pattern is its pattern string and its number, a MatchAttr is a number   *)
(* and ma_at gives its _at slot.                                           *)
(***************************************************************************)
MaxMatchAttrs == 4

PatternStrs == {"^a$", "^b$", "^ab$"}

\* the arguments of MatchAttr: a string, a compiled pattern, a MatchAttr
StrArg(str) == [t |-> "str", p |-> str, id |-> 0]
Pat(str, n) == [t |-> "re", p |-> str, id |-> n]
MatchAttrArg(m) == [t |-> "MatchAttr", p |-> "", id |-> m]

\* a == b for compiled patterns, and for whatever MatchAttr compares
PyEq(a, b) ==
    IF a.t = "re" /\ b.t = "re" THEN (IF by_value THEN a.p = b.p ELSE a = b)
    ELSE a = b

\* re.compile(str): the cached pattern object, or a new one that is cached
re_compile(str) ==
    IF str \in DOMAIN re_cache THEN re_cache[str] ELSE Pat(str, re_made + 1)

\* k in cls._matches_, for k = (attr, r): the entries with an equal key
MatchesWith(attr_, r) ==
    {i \in 1..Len(_matches_) : PyEq(_matches_[i].attr, attr_) /\ PyEq(_matches_[i].r, r)}

\* MatchAttr(attr) for a string or a compiled pattern r: __new__ finds or makes
\* the object under (attr, r) and __init__ fills its _at slot once
MatchAttrNew(attr_, r) ==
    LET found == MatchesWith(attr_, r)
        obj == IF found # {} THEN _matches_[CHOOSE i \in found : TRUE].obj
               ELSE Cardinality(DOMAIN ma_at) + 1
    IN  /\ _matches_' = IF found # {} THEN _matches_
                        ELSE Append(_matches_, [attr |-> attr_, r |-> r, obj |-> obj])
        /\ ma_at' = IF obj \in DOMAIN ma_at THEN ma_at ELSE (obj :> r) @@ ma_at
        /\ ma_hist' = Append(ma_hist, [attr |-> attr_, obj |-> obj])

\* MatchAttr.__eq__(self, attr)
MatchAttr__eq__(m, attr_) ==
    IF attr_.t = "MatchAttr" THEN PyEq(ma_at[m], ma_at[attr_.id])
    ELSE PyEq(ma_at[m], attr_)

\* m != o: derived from __eq__ in Python 3, the default comparison of the
\* objects in Python 2, where the class defines no __ne__
MatchAttr__ne__(m, o) ==
    IF by_value THEN ~MatchAttr__eq__(m, MatchAttrArg(o)) ELSE m # o

InitMatch ==
    /\ IdleAttr /\ IdleSearch /\ IdleDispatch /\ IdleLru /\ IdleOut
    /\ by_value \in BOOLEAN
    /\ re_cache = <<>>
    /\ re_made = 0
    /\ _matches_ = <<>>
    /\ ma_at = <<>>
    /\ ma_hist = <<>>

\* MatchAttr(str): re.compile(str) in __new__ and again in __init__
MatchAttrFromString ==
    /\ Len(ma_hist) < MaxMatchAttrs
    /\ \E str \in PatternStrs :
          /\ MatchAttrNew(StrArg(str), re_compile(str))
          /\ re_cache' = IF str \in DOMAIN re_cache THEN re_cache
                         ELSE (str :> re_compile(str)) @@ re_cache
          /\ re_made' = IF str \in DOMAIN re_cache THEN re_made ELSE re_made + 1
    /\ UNCHANGED <<by_value, attrVars, searchVars, dispatchVars, lruVars, outVars>>

\* MatchAttr(re.compile(str))
MatchAttrFromRe ==
    /\ Len(ma_hist) < MaxMatchAttrs
    /\ \E str \in PatternStrs :
          /\ MatchAttrNew(re_compile(str), re_compile(str))
          /\ re_cache' = IF str \in DOMAIN re_cache THEN re_cache
                         ELSE (str :> re_compile(str)) @@ re_cache
          /\ re_made' = IF str \in DOMAIN re_cache THEN re_made ELSE re_made + 1
    /\ UNCHANGED <<by_value, attrVars, searchVars, dispatchVars, lruVars, outVars>>

\* MatchAttr(m) for a MatchAttr m: __new__ returns it, __init__ leaves it
MatchAttrFromMatchAttr ==
    /\ Len(ma_hist) < MaxMatchAttrs
    /\ \E m \in DOMAIN ma_at :
          ma_hist' = Append(ma_hist, [attr |-> MatchAttrArg(m), obj |-> m])
    /\ UNCHANGED <<by_value, re_cache, re_made, _matches_, ma_at,
                   attrVars, searchVars, dispatchVars, lruVars, outVars>>

\* the cache of re is emptied: re.purge(), or re.compile finding it full
RePurge ==
    /\ re_cache # <<>>
    /\ re_cache' = <<>>
    /\ UNCHANGED <<by_value, re_made, _matches_, ma_at, ma_hist,
                   attrVars, searchVars, dispatchVars, lruVars, outVars>>

NextMatch ==
    \/ MatchAttrFromString
    \/ MatchAttrFromRe
    \/ MatchAttrFromMatchAttr
    \/ RePurge

SpecMatch == InitMatch /\ [][NextMatch]_vars

\* C19: MatchAttr is interned: of two constructions from pattern strings,
\* the later one returns the identical object when the strings are the same,
\* and a distinct object that compares unequal when they differ.
C19_Interned ==
    \A i, j \in 1..Len(ma_hist) :
        (i < j /\ ma_hist[i].attr.t = "str" /\ ma_hist[j].attr.t = "str") =>
            IF ma_hist[i].attr.p = ma_hist[j].attr.p
            THEN ma_hist[j].obj = ma_hist[i].obj
            ELSE /\ ma_hist[j].obj # ma_hist[i].obj
                 /\ MatchAttr__ne__(ma_hist[i].obj, ma_hist[j].obj)

\* C20: a MatchAttr equals the pattern it was built from, given as a string
\* (MatchAttr(s) == s) or as a compiled pattern (MatchAttr(r) == r and
\* MatchAttr(r)._at == r).
C20_EqualsItsPattern ==
    \A i \in 1..Len(ma_hist) :
        /\ ma_hist[i].attr.t = "str" => MatchAttr__eq__(ma_hist[i].obj, ma_hist[i].attr)
        /\ ma_hist[i].attr.t = "re" =>
              /\ MatchAttr__eq__(ma_hist[i].obj, ma_hist[i].attr)
              /\ PyEq(ma_at[ma_hist[i].obj], ma_hist[i].attr)


(***************************************************************************)
(* Order of the stages, defaults and route arguments of a dispatch         *)
(***************************************************************************)
\* C21: the stages of a dispatch come in the order attribute resolved,
\* permission checked, input collected: a coercion transform is applied only
\* once the path has passed the permission check, and a dispatch that ends
\* with ForbiddenAttribute has applied none.
C21_PermissionBeforeCoercion ==
    /\ InTrace("trans") => permitted = "yes"
    /\ (pc = "done" /\ outcome.exc = "ForbiddenAttribute") => ~InTrace("trans")


\* C22: no step of a collect or of a dispatch modifies the configured
\* dflt_spec, so the mapping collected for a request depends only on that
\* request and on the configuration.
C22_DfltSpecUnchanged == [][dflt_spec' = dflt_spec]_vars


(***************************************************************************)
(* Properties of lru_cache                                                 *)
(***************************************************************************)
\* C23: a miss that inserts into a full cache evicts one key, the one whose
\* most recent access is the oldest among the cached keys; a hit makes its
\* key the most recently used and evicts nothing.
C23_LruEviction ==
    [][LET evicted == DOMAIN lru.cache \ DOMAIN lru'.cache
           inserted == DOMAIN lru'.cache \ DOMAIN lru.cache
       IN  /\ (inserted # {} /\ Cardinality(DOMAIN lru.cache) = cache_size)
                 => evicted = {Head(recency)}
           /\ lru'.hits = lru.hits + 1
                 => /\ evicted = {} /\ inserted = {}
                    /\ LruKeys(lru') = recency']_vars

\* a hit has changed which key is the oldest, and that key was then evicted
C23_Witness ==
    /\ cache_size = 2
    /\ lru.hits = 1
    /\ lru.misses = 3
    /\ recency = <<_make_key(<<>>), _make_key("user" :> V("str", "you"))>>
    /\ LruKeys(lru) = recency


\* C24: with several threads calling the wrapped function, in every state
\* where no thread is inside a locked section the dictionary and the circular
\* list hold the same keys, each key once and under its own link, and at most
\* cache_size of them; so two threads that miss on the same key and both
\* construct leave one entry for the key.
C24_DictAndListAgree ==
    lock = 0 =>
        LET keys == LruKeys(lru)
        IN  /\ {keys[i] : i \in 1..Len(keys)} = DOMAIN lru.cache
            /\ Len(keys) = Cardinality(DOMAIN lru.cache)
            /\ \A k \in DOMAIN lru.cache : lru.links[lru.cache[k]].key = k
            /\ Cardinality(DOMAIN lru.links) = Len(keys) + 1
            /\ Len(keys) <= cache_size

\* two calls missed, both constructed and both went through the store, and
\* the cache of size 2 has one key
C24_Witness ==
    /\ cache_size = 2
    /\ ncalls = 2
    /\ lru.misses = 2
    /\ lru.hits = 0
    /\ \A t \in Threads : th[t].pc = "idle"
    /\ Cardinality(DOMAIN lru.cache) = 1
    /\ Len(LruKeys(lru)) = 1


\* C25: the lock is not held while the wrapped function runs: while a thread
\* is inside the function after a miss, no thread holds the lock, and every
\* other thread outside wrapper can go through its lookup (a hit, or a miss
\* that starts its own construction) without waiting.
C25_LockFreeWhileConstructing ==
    \A t \in Threads :
        th[t].pc = "user_function" =>
            /\ lock = 0
            /\ \A u \in Threads \ {t} :
                   (th[u].pc = "idle" /\ ncalls < MaxCalls) => ENABLED WrapperLookup(u)

\* thread 1 is inside the function for call 2, and call 3, of thread 2, was
\* a hit on the key that call 1 stored
C25_Witness ==
    /\ th[1].pc = "user_function"
    /\ th[1].call = 2
    /\ th[2].pc = "idle"
    /\ ncalls = 3
    /\ lru.hits = 1
    /\ lru.misses = 1
    /\ th[1].key \notin DOMAIN lru.cache


(***************************************************************************)
(* Properties of the value-type entries of a trans_spec                    *)
(***************************************************************************)
\* the value-type entry of st_spec for st_val (TRANS_NOT_FOUND: none)
ValtypeEntry ==
    IF st_spec.k = "dict"
    THEN FirstOfType(st_val, DictGet(st_spec.d, _VALTYPE, <<>>))
    ELSE TRANS_NOT_FOUND

\* an axis entry that is absent or empty resolves to nothing
NotResolving(entry) == entry = TRANS_NOT_FOUND \/ entry = Dict(<<>>)

\* C26: py2api/py2rest/input_trans.py.  When no source, attribute or
\* argname entry resolves and the level has a value-type transform for a
\* type of which the value is an instance, the search returns that
\* transform, whether or not the level has an _else entry.
C26_ValtypeBeforeElse ==
    (/\ st_pc = "done" /\ st_impl = "py2api.py2rest"
     /\ (st_source = NoSource \/ NotResolving(EntryOf(_SOURCE, st_source)))
     /\ NotResolving(EntryOf(_ATTR, st_attr))
     /\ NotResolving(EntryOf(_ARGNAME, st_argname))
     /\ callable(ValtypeEntry))
        => st_result = ValtypeEntry

\* C27: OutputTrans and the InputTrans of src/py2rest/input_trans.py.  The
\* search returns a transform or TRANS_NOT_FOUND, never a mapping, also when
\* the matched value-type entry is a nested spec.
C27_TransformOrNotFound ==
    (st_pc = "done" /\ st_impl \in {"py2rest", "output_trans"})
        => (callable(st_result) \/ st_result = TRANS_NOT_FOUND)


(***************************************************************************)
(* Properties of a matcher without include entries                         *)
(***************************************************************************)
\* C28: a matcher built from an include/exclude mapping whose include list
\* is empty or absent permits no attribute path, whatever its exclude list.
C28_EmptyIncludePermitsNothing ==
    (/\ pa_pc = "called"
     /\ pa_attrs.t = "dict"
     /\ ("include" \notin DOMAIN pa_attrs.v \/ Len(pa_attrs.v.include) = 0))
        => ~pa_result


(***************************************************************************)
(* Properties of the route arguments of a dispatch                         *)
(***************************************************************************)
\* C29: when the route arguments contain the attribute name, the attribute
\* path of the dispatch is the route argument's value, whatever the query
\* source gives, and the lookup of the path does not fail.
C29_RouteAttrWins ==
    (pc \in {"collect", "check", "done"} /\ ATTR \in DOMAIN route_args)
        => /\ ~(outcome.kind = "raise" /\ outcome.at = "_get_attr_from_request")
           /\ attr = route_args[ATTR].v

\* C30: with the default sources (json, args, route), the iteration of the
\* route arguments does not fail, and when InputTrans.__call__ has returned
\* every route argument other than the attribute name is in the collected
\* mapping under its own name, with the route's (possibly transformed)
\* value, also when the json or the query source has the name.
C30_RouteArgsCollected ==
    (self.sources = <<_JSON, _ARGS, _ROUTE>> /\ pc \in {"check", "done"})
        => \A x \in DOMAIN route_args \ {ATTR} :
              /\ ~(outcome.kind = "raise" /\ outcome.at = "unpack")
              /\ pc = "check" => /\ x \in DOMAIN input_dict
                                 /\ input_dict[x] = ValueFrom(x, 3)

====
